---- MODULE Spec2Model ----
(***************************************************************************)
(* beek: a calculator language.  This module models the Environment       *)
(* (src/interpreter/env.rs), the arithmetic of the operators               *)
(* (src/interpreter.rs), the evaluator that runs statements against the    *)
(* Environment, and the session that feeds statements and commands to it.  *)
(*                                                                         *)
(* The evaluator of the Field/Function/NamedItem design (exec_stmt         *)
(* returning Option<Number>, eval_expr over a global and a local           *)
(* environment, eval_func) is not among the source files: env.rs declares  *)
(* what it uses and main.rs calls it.  It is modelled from spec.md 4.4.    *)
(***************************************************************************)
EXTENDS Integers, Sequences, FiniteSets, TLC

(***************************************************************************)
(* Number (language.rs:8) wraps an f64.  The model keeps the structure of  *)
(* IEEE arithmetic on a reduced grid: the finite values are the integers   *)
(* of magnitude at most MaxFinite, an inexact result is rounded toward     *)
(* zero, a result beyond MaxFinite is an infinity, and NaN is a value.     *)
(***************************************************************************)
MaxFinite == 1000

\* How many user-function bodies may be active at once before the host
\* call stack is exhausted (spec.md 5: bounded only by the host call stack).
MaxDepth == 3

Fin(k) == [fin |-> TRUE, n |-> k]

NaN == [fin |-> FALSE, n |-> 0]

Inf(s) == [fin |-> FALSE, n |-> s]

IsNaN(v) == ~v.fin /\ v.n = 0

IsInf(v) == ~v.fin /\ v.n # 0

is_finite(v) == v.fin

Abs(k) == IF k < 0 THEN -k ELSE k

Sgn(k) == IF k < 0 THEN -1 ELSE 1

\* The sign of a value that is not NaN, the sign of zero being positive.
SignOf(v) == IF v.fin THEN Sgn(v.n) ELSE v.n

\* An exact integer result as an f64: overflow gives an infinity.
Round(k) == IF k > MaxFinite THEN Inf(1) ELSE IF k < -MaxFinite THEN Inf(-1) ELSE Fin(k)

\* The quotient rounded toward zero (b # 0).
TruncDiv(a, b) == Sgn(a) * Sgn(b) * (Abs(a) \div Abs(b))

\* a ^ b for b >= 0, stopping as soon as the magnitude leaves the finite range.
RECURSIVE IntPow(_, _)
IntPow(a, b) ==
    IF b = 0 THEN 1
    ELSE LET r == IntPow(a, b - 1)
         IN  IF Abs(r) > MaxFinite THEN r ELSE a * r

\* n! for n >= 0, stopping as soon as it leaves the finite range.
RECURSIVE IntFactorial(_)
IntFactorial(n) ==
    IF n <= 1 THEN 1
    ELSE LET r == IntFactorial(n - 1)
         IN  IF r > MaxFinite THEN r ELSE n * r

\* The integer square root of n >= 0 (sqrt rounded toward zero).
RECURSIVE IntSqrtFrom(_, _)
IntSqrtFrom(n, r) == IF (r + 1) * (r + 1) > n THEN r ELSE IntSqrtFrom(n, r + 1)

f64_neg(x) == IF x.fin THEN Fin(-x.n) ELSE Inf(-x.n)

f64_add(a, b) ==
    IF IsNaN(a) \/ IsNaN(b) THEN NaN
    ELSE IF IsInf(a) /\ IsInf(b) THEN (IF a.n = b.n THEN a ELSE NaN)
    ELSE IF IsInf(a) THEN a
    ELSE IF IsInf(b) THEN b
    ELSE Round(a.n + b.n)

f64_sub(a, b) == f64_add(a, f64_neg(b))

f64_mul(a, b) ==
    IF IsNaN(a) \/ IsNaN(b) THEN NaN
    ELSE IF IsInf(a) \/ IsInf(b)
         THEN (IF a = Fin(0) \/ b = Fin(0) THEN NaN ELSE Inf(SignOf(a) * SignOf(b)))
    ELSE Round(a.n * b.n)

f64_div(a, b) ==
    IF IsNaN(a) \/ IsNaN(b) THEN NaN
    ELSE IF IsInf(a) THEN (IF IsInf(b) THEN NaN ELSE Inf(SignOf(a) * SignOf(b)))
    ELSE IF IsInf(b) THEN Fin(0)
    ELSE IF b.n = 0 THEN (IF a.n = 0 THEN NaN ELSE Inf(Sgn(a.n)))
    ELSE Fin(TruncDiv(a.n, b.n))

\* The remainder of the truncated division: it has the sign of the dividend.
f64_rem(a, b) ==
    IF IsNaN(a) \/ IsNaN(b) \/ IsInf(a) THEN NaN
    ELSE IF IsInf(b) THEN a
    ELSE IF b.n = 0 THEN NaN
    ELSE Fin(a.n - b.n * TruncDiv(a.n, b.n))

IsOdd(k) == Abs(k) % 2 = 1

f64_powf(a, b) ==
    IF b = Fin(0) \/ a = Fin(1) THEN Fin(1)
    ELSE IF IsNaN(a) \/ IsNaN(b) THEN NaN
    ELSE IF IsInf(b)
         THEN IF a = Fin(-1) THEN Fin(1)
              ELSE IF a = Fin(0) THEN (IF b.n > 0 THEN Fin(0) ELSE Inf(1))
              ELSE (IF b.n > 0 THEN Inf(1) ELSE Fin(0))
    ELSE IF IsInf(a)
         THEN IF b.n < 0 THEN Fin(0)
              ELSE (IF a.n < 0 /\ IsOdd(b.n) THEN Inf(-1) ELSE Inf(1))
    ELSE IF b.n > 0 THEN Round(IntPow(a.n, b.n))
    ELSE IF a.n = 0 THEN Inf(1)
    ELSE IF Abs(a.n) = 1 THEN Fin(IntPow(a.n, -b.n))
    ELSE Fin(0)

f64_sqrt(x) ==
    IF IsNaN(x) THEN NaN
    ELSE IF IsInf(x) THEN (IF x.n > 0 THEN x ELSE NaN)
    ELSE IF x.n < 0 THEN NaN
    ELSE Fin(IntSqrtFrom(x.n, 0))

f64_abs(x) == IF x.fin THEN Fin(Abs(x.n)) ELSE IF IsNaN(x) THEN NaN ELSE Inf(1)

\* Every value of the grid is an integer, so floor leaves it as it is.
f64_floor(x) == x

\* f64::max and f64::min return the other operand when one is NaN.
f64_max(a, b) ==
    IF IsNaN(a) THEN b
    ELSE IF IsNaN(b) THEN a
    ELSE IF IsInf(a) THEN (IF a.n > 0 THEN a ELSE b)
    ELSE IF IsInf(b) THEN (IF b.n > 0 THEN b ELSE a)
    ELSE IF a.n >= b.n THEN a ELSE b

f64_min(a, b) ==
    IF IsNaN(a) THEN b
    ELSE IF IsNaN(b) THEN a
    ELSE IF IsInf(a) THEN (IF a.n < 0 THEN a ELSE b)
    ELSE IF IsInf(b) THEN (IF b.n < 0 THEN b ELSE a)
    ELSE IF a.n <= b.n THEN a ELSE b

\* env.rs sign: zero stays zero, NaN.signum() is NaN, otherwise +1 or -1.
sign(x) ==
    IF IsNaN(x) THEN NaN
    ELSE IF x = Fin(0) THEN Fin(0)
    ELSE Fin(SignOf(x))

\* env.rs random: a draw from [0, 1), of which the grid holds 0 alone.
random == Fin(0)

\* interpreter.rs factorial: the exact factorial of a non-negative integer,
\* otherwise gamma(x + 1).  On the grid the otherwise-case is a pole of gamma
\* (x a negative integer: infinite, or of a magnitude beyond any finite
\* value of the grid) or a non-finite x.
factorial(x) ==
    IF IsNaN(x) THEN NaN
    ELSE IF IsInf(x) THEN (IF x.n > 0 THEN x ELSE NaN)
    ELSE IF x.n >= 0 THEN Round(IntFactorial(x.n))
    ELSE Inf(1)

(***************************************************************************)
(* language.rs: the AST.                                                   *)
(***************************************************************************)
Number(v) == [t |-> "Number", value |-> v]

Variable(name) == [t |-> "Variable", name |-> name]

Function(name, args) == [t |-> "Function", name |-> name, args |-> args]

UnaryOp(op, x) == [t |-> "UnaryOp", op |-> op, x |-> x]

BinaryOp(op, a, b) == [t |-> "BinaryOp", op |-> op, a |-> a, b |-> b]

Expression(expr) == [s |-> "Expression", expr |-> expr]

VariableAssignment(name, expr) == [s |-> "VariableAssignment", name |-> name, expr |-> expr]

FunctionDefinition(name, arg_names, expr) ==
    [s |-> "FunctionDefinition", name |-> name, arg_names |-> arg_names, expr |-> expr]

(***************************************************************************)
(* env.rs: the items a name can be bound to.  An Environment is a map from *)
(* every identifier of the model to its item, Unbound for a name the       *)
(* HashMap does not hold.                                                  *)
(***************************************************************************)
Unbound == [kind |-> "Unbound"]

FieldVariable(x) == [kind |-> "Variable", value |-> x]

FieldConstant(x) == [kind |-> "Constant", value |-> x]

NullaryBuiltin(ptr) == [kind |-> "NullaryBuiltin", ptr |-> ptr]

UnaryBuiltin(ptr) == [kind |-> "UnaryBuiltin", ptr |-> ptr]

BinaryBuiltin(ptr) == [kind |-> "BinaryBuiltin", ptr |-> ptr]

UserDefined(arg_names, expr) == [kind |-> "UserDefined", arg_names |-> arg_names, expr |-> expr]

IsField(item) == item.kind \in {"Variable", "Constant"}

IsFunction(item) == item.kind \in {"NullaryBuiltin", "UnaryBuiltin", "BinaryBuiltin", "UserDefined"}

is_builtin(func) == func.kind # "UserDefined"

\* num_args with a nullary built-in declared as taking one argument.
num_args_nullary_takes_one(func) ==
    CASE func.kind = "NullaryBuiltin" -> 1
      [] func.kind = "UnaryBuiltin" -> 1
      [] func.kind = "BinaryBuiltin" -> 2
      [] func.kind = "UserDefined" -> Len(func.arg_names)

num_args(func) ==
    CASE func.kind = "NullaryBuiltin" -> 0
      [] func.kind = "UnaryBuiltin" -> 1
      [] func.kind = "BinaryBuiltin" -> 2
      [] func.kind = "UserDefined" -> Len(func.arg_names)

\* Default for Environment: the constants and the built-in functions.  Of the
\* unary and binary built-ins the model keeps those whose value on the grid
\* is exact; the transcendental ones are left out.
CONSTS == << <<"e", Fin(2)>>, <<"pi", Fin(3)>>, <<"π", Fin(3)>>, <<"tau", Fin(6)>>, <<"τ", Fin(6)>> >>

NULLARY_FUNCS == << "random" >>

UNARY_FUNCS == << "floor", "abs", "sqrt", "sign" >>

BINARY_FUNCS == << "pow", "max", "min" >>

Range(seq) == {seq[i] : i \in 1..Len(seq)}

\* The identifiers user statements introduce.
UserNames == {"x", "y", "f", "g", "ans", "_"}

Names == {c[1] : c \in Range(CONSTS)} \cup Range(NULLARY_FUNCS) \cup Range(UNARY_FUNCS)
         \cup Range(BINARY_FUNCS) \cup UserNames

DefaultEnvironment ==
    [name \in Names |->
        IF \E c \in Range(CONSTS) : c[1] = name
        THEN FieldConstant((CHOOSE c \in Range(CONSTS) : c[1] = name)[2])
        ELSE IF name \in Range(NULLARY_FUNCS) THEN NullaryBuiltin(name)
        ELSE IF name \in Range(UNARY_FUNCS) THEN UnaryBuiltin(name)
        ELSE IF name \in Range(BINARY_FUNCS) THEN BinaryBuiltin(name)
        ELSE Unbound]

\* The result of an operation on the Environment: the EvalResult and the
\* Environment as the operation leaves it behind its &mut reference.
EnvOk(e) == [ok |-> TRUE, err |-> "None", env |-> e]

EnvErr(kind, e) == [ok |-> FALSE, err |-> kind, env |-> e]

FieldOk(x) == [ok |-> TRUE, err |-> "None", val |-> x]

FieldErr(kind) == [ok |-> FALSE, err |-> kind, val |-> NaN]

resolve_field(e, ident) ==
    IF IsField(e[ident]) THEN FieldOk(e[ident].value)
    ELSE IF IsFunction(e[ident]) THEN FieldErr("TypeError")
    ELSE FieldErr("ReferenceError")

FuncOk(func) == [ok |-> TRUE, err |-> "None", func |-> func]

FuncErr(kind) == [ok |-> FALSE, err |-> kind, func |-> Unbound]

resolve_func(e, ident) ==
    IF IsFunction(e[ident]) THEN FuncOk(e[ident])
    ELSE IF IsField(e[ident]) THEN FuncErr("TypeError")
    ELSE FuncErr("ReferenceError")

\* delete that reports success on a user-defined function and leaves it bound.
delete_keeps_function(e, ident) ==
    IF e[ident].kind = "Constant" THEN EnvErr("TypeError", e)
    ELSE IF IsFunction(e[ident]) /\ is_builtin(e[ident]) THEN EnvErr("TypeError", e)
    ELSE IF e[ident] = Unbound THEN EnvErr("ReferenceError", e)
    ELSE IF IsFunction(e[ident]) THEN EnvOk(e)
    ELSE EnvOk([e EXCEPT ![ident] = Unbound])

\* delete without the check for constants.
delete_removes_constant(e, ident) ==
    IF IsFunction(e[ident]) /\ is_builtin(e[ident]) THEN EnvErr("TypeError", e)
    ELSE IF e[ident] = Unbound THEN EnvErr("ReferenceError", e)
    ELSE EnvOk([e EXCEPT ![ident] = Unbound])

delete(e, ident) ==
    IF e[ident].kind = "Constant" THEN EnvErr("TypeError", e)
    ELSE IF IsFunction(e[ident]) /\ is_builtin(e[ident]) THEN EnvErr("TypeError", e)
    ELSE IF e[ident] = Unbound THEN EnvErr("ReferenceError", e)
    ELSE EnvOk([e EXCEPT ![ident] = Unbound])

\* assign_var that inserts the variable before it validates the name.
assign_var_commits_first(e, name, value) ==
    IF e[name].kind = "Constant" \/ (IsFunction(e[name]) /\ is_builtin(e[name]))
    THEN EnvErr("TypeError", [e EXCEPT ![name] = FieldVariable(value)])
    ELSE EnvOk([e EXCEPT ![name] = FieldVariable(value)])

\* assign_var without the check for built-in functions.
assign_var_over_builtin(e, name, value) ==
    IF e[name].kind = "Constant" THEN EnvErr("TypeError", e)
    ELSE EnvOk([e EXCEPT ![name] = FieldVariable(value)])

\* assign_var with every variable sharing the cell that is written.
assign_var_shared_cell(e, name, value) ==
    IF e[name].kind = "Constant" THEN EnvErr("TypeError", e)
    ELSE IF IsFunction(e[name]) /\ is_builtin(e[name]) THEN EnvErr("TypeError", e)
    ELSE EnvOk([n \in DOMAIN e |->
                  IF n = name \/ e[n].kind = "Variable" THEN FieldVariable(value) ELSE e[n]])

\* assign_var that refuses every name bound to a function.
assign_var_refuses_function(e, name, value) ==
    IF e[name].kind = "Constant" THEN EnvErr("TypeError", e)
    ELSE IF IsFunction(e[name]) THEN EnvErr("TypeError", e)
    ELSE EnvOk([e EXCEPT ![name] = FieldVariable(value)])

assign_var(e, name, value) ==
    IF e[name].kind = "Constant" THEN EnvErr("TypeError", e)
    ELSE IF IsFunction(e[name]) /\ is_builtin(e[name]) THEN EnvErr("TypeError", e)
    ELSE EnvOk([e EXCEPT ![name] = FieldVariable(value)])

\* def_const that inserts only when the name is absent.
def_const_if_absent(e, name, value) ==
    IF e[name] = Unbound THEN EnvOk([e EXCEPT ![name] = FieldConstant(value)]) ELSE EnvOk(e)

def_const(e, name, value) == EnvOk([e EXCEPT ![name] = FieldConstant(value)])

\* The first element that occurs a second time, as a set that is empty when
\* there is none.
find_duplicate(xs) ==
    LET dups == {i \in 1..Len(xs) : \E j \in 1..(i - 1) : xs[j] = xs[i]}
    IN  IF dups = {} THEN {} ELSE {xs[CHOOSE i \in dups : \A j \in dups : i <= j]}

\* def_func that stores the body with the fields it reads replaced by their
\* values at the time of the definition.
def_func_captures_values(e, name, arg_names, expr) ==
    LET Captured(x) ==
            IF x.t = "Variable" /\ x.name \notin Range(arg_names) /\ IsField(e[x.name])
            THEN [t |-> "Number", value |-> e[x.name].value]
            ELSE x
        body == IF expr.t = "BinaryOp"
                THEN [expr EXCEPT !.a = Captured(expr.a), !.b = Captured(expr.b)]
                ELSE Captured(expr)
    IN  IF find_duplicate(arg_names) # {} THEN EnvErr("DefinitionError", e)
        ELSE IF e[name].kind = "Constant" THEN EnvErr("TypeError", e)
        ELSE IF IsFunction(e[name]) /\ is_builtin(e[name]) THEN EnvErr("TypeError", e)
        ELSE EnvOk([e EXCEPT ![name] = UserDefined(arg_names, body)])

\* def_func without the search for a duplicate parameter.
def_func_allows_duplicates(e, name, arg_names, expr) ==
    IF e[name].kind = "Constant" THEN EnvErr("TypeError", e)
    ELSE IF IsFunction(e[name]) /\ is_builtin(e[name]) THEN EnvErr("TypeError", e)
    ELSE EnvOk([e EXCEPT ![name] = UserDefined(arg_names, expr)])

\* def_func that refuses only a Constant: a built-in function can be
\* redefined.
def_func_over_builtin(e, name, arg_names, expr) ==
    IF find_duplicate(arg_names) # {} THEN EnvErr("DefinitionError", e)
    ELSE IF e[name].kind = "Constant" THEN EnvErr("TypeError", e)
    ELSE EnvOk([e EXCEPT ![name] = UserDefined(arg_names, expr)])

def_func(e, name, arg_names, expr) ==
    IF find_duplicate(arg_names) # {} THEN EnvErr("DefinitionError", e)
    ELSE IF e[name].kind = "Constant" THEN EnvErr("TypeError", e)
    ELSE IF IsFunction(e[name]) /\ is_builtin(e[name]) THEN EnvErr("TypeError", e)
    ELSE EnvOk([e EXCEPT ![name] = UserDefined(arg_names, expr)])

\* A clone that is the original object under a second reference.
Clone_aliases(heap, id) == [heap |-> heap, id |-> id]

\* #[derive(Clone)] for Environment.  Environments live in a heap (a sequence
\* of Environments, addressed by position) so that a copy and the original
\* are different objects: the clone is a new object holding the same items.
Clone(heap, id) == [heap |-> Append(heap, heap[id]), id |-> Len(heap) + 1]

(***************************************************************************)
(* interpreter.rs: the operators.  An application yields the value, or     *)
(* NumericalError when the value is not finite.                            *)
(***************************************************************************)
NumOk(value) == [ok |-> TRUE, val |-> value]

NumErr(value) == [ok |-> FALSE, val |-> value]

UnaryOpValue(op, x) ==
    CASE op = "Negate" -> f64_neg(x)
      [] op = "Factorial" -> factorial(x)

UnaryOpApply(op, x) ==
    LET value == UnaryOpValue(op, x)
    IN  IF is_finite(value) THEN NumOk(value) ELSE NumErr(value)

BinaryOpValue(op, a, b) ==
    CASE op = "Add" -> f64_add(a, b)
      [] op = "Subtract" -> f64_sub(a, b)
      [] op = "Multiply" -> f64_mul(a, b)
      [] op = "Divide" -> f64_div(a, b)
      [] op = "Modulo" -> f64_rem(a, b)
      [] op = "Power" -> f64_powf(a, b)

BinaryOpApply(op, a, b) ==
    LET value == BinaryOpValue(op, a, b)
    IN  IF is_finite(value) THEN NumOk(value) ELSE NumErr(value)

\* The native operation behind a built-in function's pointer.
BuiltinValue(ptr, args) ==
    CASE ptr = "random" -> random
      [] ptr = "floor" -> f64_floor(args[1])
      [] ptr = "abs" -> f64_abs(args[1])
      [] ptr = "sqrt" -> f64_sqrt(args[1])
      [] ptr = "sign" -> sign(args[1])
      [] ptr = "pow" -> f64_powf(args[1], args[2])
      [] ptr = "max" -> f64_max(args[1], args[2])
      [] ptr = "min" -> f64_min(args[1], args[2])

(***************************************************************************)
(* The evaluator (spec.md 4.4).  An evaluation yields a Number or an       *)
(* EvalError; the model also records the log of the native applications    *)
(* it performed, in order, each with the value it produced, and the heap   *)
(* as the evaluation leaves it.  "StackOverflow" is no EvalError: it       *)
(* stands for the process exhausting the host call stack.                  *)
(***************************************************************************)
EvalOk(x, log, heap) ==
    [ok |-> TRUE, val |-> x, err |-> "None", name |-> "", expected |-> 0, got |-> 0,
     log |-> log, heap |-> heap]

EvalErr(kind, x, name, expected, got, log, heap) ==
    [ok |-> FALSE, val |-> x, err |-> kind, name |-> name, expected |-> expected, got |-> got,
     log |-> log, heap |-> heap]

\* A log entry: a native application with the value it produced, or the
\* entry into the body of a user-defined function.
Applied(name, value) == [what |-> "apply", name |-> name, out |-> value]

Entered(name) == [what |-> "enter", name |-> name, out |-> NaN]

WithLog(prefix, r) == [r EXCEPT !.log = prefix \o r.log]

\* The finite-value check on the outcome of a native application.
Checked(what, applied, heap) ==
    IF applied.ok
    THEN EvalOk(applied.val, <<Applied(what, applied.val)>>, heap)
    ELSE EvalErr("NumericalError", applied.val, "", 0, 0, <<Applied(what, applied.val)>>, heap)

\* Binds each parameter name, in order, as a constant to its argument value.
RECURSIVE BindArgs(_, _, _, _)
BindArgs(e, arg_names, args, i) ==
    IF i > Len(arg_names) THEN e
    ELSE BindArgs(def_const(e, arg_names[i], args[i]).env, arg_names, args, i + 1)

RECURSIVE eval_expr(_, _, _, _, _)
RECURSIVE eval_args(_, _, _, _, _, _, _)
RECURSIVE eval_func(_, _, _, _, _, _)

\* Function application: the arity check, then the native operation of a
\* built-in, or the body of a user-defined function evaluated against a
\* call-local Environment: a clone of the global one with the callee's own
\* name removed and the parameters bound as constants.
eval_func(name, func, args, heap, g, depth) ==
    IF num_args(func) # Len(args)
    THEN EvalErr("ArityError", NaN, name, num_args(func), Len(args), <<>>, heap)
    ELSE IF is_builtin(func)
    THEN LET value == BuiltinValue(func.ptr, args)
         IN  Checked(name, IF is_finite(value) THEN NumOk(value) ELSE NumErr(value), heap)
    ELSE IF depth >= MaxDepth
    THEN EvalErr("StackOverflow", NaN, name, 0, 0, <<>>, heap)
    ELSE LET c == Clone(heap, g)
             d == delete(c.heap[c.id], name)
             bound == BindArgs(d.env, func.arg_names, args, 1)
             heap2 == [c.heap EXCEPT ![c.id] = IF d.ok THEN bound ELSE d.env]
         IN  IF ~d.ok
             THEN EvalErr(d.err, NaN, name, 0, 0, <<>>, heap2)
             ELSE WithLog(<<Entered(name)>>, eval_expr(func.expr, heap2, g, c.id, depth + 1))

\* The arguments of a call, evaluated in order; the first failure ends it.
eval_args(args, i, vals, heap, g, l, depth) ==
    IF i > Len(args) THEN [r |-> EvalOk(NaN, <<>>, heap), vals |-> vals]
    ELSE LET x == eval_expr(args[i], heap, g, l, depth)
         IN  IF ~x.ok THEN [r |-> x, vals |-> vals]
             ELSE LET rest == eval_args(args, i + 1, Append(vals, x.val), x.heap, g, l, depth)
                  IN  [r |-> WithLog(x.log, rest.r), vals |-> rest.vals]

\* heap[g] is the global Environment, heap[l] the local one.
eval_expr(expr, heap, g, l, depth) ==
    CASE expr.t = "Number" -> EvalOk(expr.value, <<>>, heap)
      [] expr.t = "Variable" ->
            LET field == resolve_field(heap[l], expr.name)
            IN  IF field.ok THEN EvalOk(field.val, <<>>, heap)
                ELSE EvalErr(field.err, NaN, expr.name, 0, 0, <<>>, heap)
      [] expr.t = "Function" ->
            LET callee == resolve_func(heap[l], expr.name)
            IN  IF ~callee.ok THEN EvalErr(callee.err, NaN, expr.name, 0, 0, <<>>, heap)
                ELSE LET evaluated == eval_args(expr.args, 1, <<>>, heap, g, l, depth)
                     IN  IF ~evaluated.r.ok THEN evaluated.r
                         ELSE WithLog(evaluated.r.log,
                                      eval_func(expr.name, callee.func, evaluated.vals,
                                                evaluated.r.heap, g, depth))
      [] expr.t = "UnaryOp" ->
            LET x == eval_expr(expr.x, heap, g, l, depth)
            IN  IF ~x.ok THEN x
                ELSE WithLog(x.log, Checked(expr.op, UnaryOpApply(expr.op, x.val), x.heap))
      [] expr.t = "BinaryOp" ->
            LET a == eval_expr(expr.a, heap, g, l, depth)
            IN  IF ~a.ok THEN a
                ELSE LET b == eval_expr(expr.b, a.heap, g, l, depth)
                     IN  IF ~b.ok THEN WithLog(a.log, b)
                         ELSE WithLog(a.log \o b.log,
                                      Checked(expr.op, BinaryOpApply(expr.op, a.val, b.val), b.heap))

\* The outcome of a statement: Ok(Some(value)), Ok(None) or Err(error).
StmtResult(r, some) ==
    [ok |-> r.ok, some |-> some, val |-> r.val, err |-> r.err, name |-> r.name,
     expected |-> r.expected, got |-> r.got, log |-> r.log]

\* The rebinding of ans and _ as Variables, which the user can assign and
\* delete.
RECURSIVE RebindAns_as_variables(_, _, _, _)
RebindAns_as_variables(e, names, value, i) ==
    IF i > Len(names) THEN e
    ELSE RebindAns_as_variables([e EXCEPT ![names[i]] = FieldVariable(value)],
                                names, value, i + 1)

\* After a statement that produced a value, ans and _ are rebound to it.
RECURSIVE RebindAns(_, _, _, _)
RebindAns(e, names, value, i) ==
    IF i > Len(names) THEN e
    ELSE RebindAns(def_const(e, names[i], value).env, names, value, i + 1)

exec_stmt(stmt, e) ==
    CASE stmt.s = "Expression" ->
            LET r == eval_expr(stmt.expr, <<e>>, 1, 1, 0)
            IN  IF r.ok
                THEN [env |-> RebindAns(r.heap[1], <<"ans", "_">>, r.val, 1), res |-> StmtResult(r, TRUE)]
                ELSE [env |-> r.heap[1], res |-> StmtResult(r, FALSE)]
      [] stmt.s = "VariableAssignment" ->
            LET r == eval_expr(stmt.expr, <<e>>, 1, 1, 0)
                a == assign_var(r.heap[1], stmt.name, r.val)
            IN  IF ~r.ok THEN [env |-> r.heap[1], res |-> StmtResult(r, FALSE)]
                ELSE IF ~a.ok
                THEN [env |-> a.env,
                      res |-> StmtResult(EvalErr(a.err, NaN, stmt.name, 0, 0, r.log, <<>>), FALSE)]
                ELSE [env |-> RebindAns(a.env, <<"ans", "_">>, r.val, 1), res |-> StmtResult(r, TRUE)]
      [] stmt.s = "FunctionDefinition" ->
            LET d == def_func(e, stmt.name, stmt.arg_names, stmt.expr)
            IN  IF ~d.ok
                THEN [env |-> d.env,
                      res |-> StmtResult(EvalErr(d.err, NaN, stmt.name, 0, 0, <<>>, <<>>), FALSE)]
                ELSE [env |-> d.env, res |-> StmtResult(EvalOk(NaN, <<>>, <<>>), FALSE)]

(***************************************************************************)
(* The statements the session is fed.  Literals are those the parser       *)
(* produces: "-1" is Negate applied to 1.                                  *)
(***************************************************************************)
\* parser.rs number: the f64 a decimal literal parses to (str::parse).  A
\* literal beyond the finite range, such as 1e999, parses to infinity.
number(k) == Round(k)

Lit(k) == Number(number(k))

HugeLiteral == Lit(10 * MaxFinite)

OneOverZero == BinaryOp("Divide", Lit(1), Lit(0))

SqrtMinusOne == Function("sqrt", <<UnaryOp("Negate", Lit(1))>>)

ExpressionStmts ==
    { Expression(Lit(1)),
      Expression(HugeLiteral),
      Expression(Variable("x")),
      Expression(Variable("y")),
      Expression(Variable("f")),
      Expression(OneOverZero),
      Expression(SqrtMinusOne),
      Expression(BinaryOp("Add", OneOverZero, Variable("y"))),
      Expression(BinaryOp("Add", Variable("y"), OneOverZero)),
      Expression(BinaryOp("Multiply", Lit(MaxFinite), Lit(2))),
      Expression(Function("sqrt", <<Lit(4)>>)),
      Expression(Function("sqrt", <<>>)),
      Expression(Function("random", <<>>)),
      Expression(Function("random", <<Lit(1)>>)),
      Expression(Function("max", <<Lit(1)>>)),
      Expression(Function("max", <<Lit(1), Lit(2)>>)),
      Expression(Function("max", <<OneOverZero, SqrtMinusOne>>)),
      Expression(Function("x", <<Lit(1)>>)),
      Expression(Function("f", <<Lit(1)>>)),
      Expression(Function("f", <<Lit(1), Lit(2)>>)),
      Expression(Function("g", <<Lit(1)>>)),
      Expression(Function("g", <<Lit(2), Lit(1)>>)) }

AssignmentStmts ==
    { VariableAssignment("x", Lit(1)),
      VariableAssignment("x", Lit(2)),
      VariableAssignment("x", OneOverZero),
      VariableAssignment("y", Variable("x")),
      VariableAssignment("y", Function("f", <<Lit(1)>>)),
      VariableAssignment("pi", Lit(1)),
      VariableAssignment("sqrt", Lit(1)),
      VariableAssignment("ans", Lit(2)) }

DefinitionStmts ==
    { FunctionDefinition("f", <<"x">>, BinaryOp("Multiply", Variable("x"), Variable("y"))),
      FunctionDefinition("f", <<"x">>, BinaryOp("Add", Function("f", <<Variable("x")>>), Lit(1))),
      FunctionDefinition("f", <<"x">>, Function("g", <<Variable("x")>>)),
      FunctionDefinition("f", <<"x">>, OneOverZero),
      FunctionDefinition("g", <<"f">>, BinaryOp("Add", Variable("f"), Lit(1))),
      FunctionDefinition("g", <<"x">>, Function("f", <<Variable("x")>>)),
      FunctionDefinition("g", <<"x", "y">>, BinaryOp("Subtract", Variable("x"), Variable("y"))),
      FunctionDefinition("g", <<"x", "x">>, Variable("x")),
      FunctionDefinition("pi", <<"x">>, Variable("x")),
      FunctionDefinition("sqrt", <<"x">>, Variable("x")),
      FunctionDefinition("ans", <<"x">>, Variable("x")) }

Stmts == ExpressionStmts \cup AssignmentStmts \cup DefinitionStmts

\* The names the delete command is given.
DeleteNames == UserNames \cup {"pi", "sqrt"}

(***************************************************************************)
(* The session (repl.rs): env is the Repl's Environment.  last records     *)
(* what the last operation was and how it ended.                           *)
(***************************************************************************)
VARIABLES env, last

vars == <<env, last>>

\* The user-defined functions whose bodies an evaluation entered.
EnteredIn(log) == {log[i].name : i \in {j \in 1..Len(log) : log[j].what = "enter"}}

\* What the session remembers of its last operation: the command, the kind
\* of statement, the name it targets, the kind of item ans was bound to
\* before it, and how it ended.
Outcome(cmd, kind, target, prior, r) ==
    [cmd |-> cmd, kind |-> kind, target |-> target, prior |-> prior,
     ok |-> r.ok, some |-> r.some, err |-> r.err, name |-> r.name,
     entered |-> EnteredIn(r.log)]

NoResult == StmtResult(EvalOk(NaN, <<>>, <<>>), FALSE)

\* The name a statement binds: none for an expression statement.
Target(stmt) == IF stmt.s = "Expression" THEN "" ELSE stmt.name

\* The process is gone once an evaluation has exhausted the call stack.
Running == last.err # "StackOverflow"

Init ==
    /\ env = DefaultEnvironment
    /\ last = Outcome("none", "", "", "Unbound", NoResult)

\* Repl::run on a line holding one statement.
Run(stmt) ==
    /\ Running
    /\ LET out == exec_stmt(stmt, env)
       IN  /\ env' = out.env
           /\ last' = Outcome("stmt", stmt.s, Target(stmt), env["ans"].kind, out.res)

\* Command::Delete.
Delete(name) ==
    /\ Running
    /\ LET d == delete(env, name)
       IN  /\ env' = d.env
           /\ last' = [Outcome("delete", "", name, env["ans"].kind, NoResult)
                          EXCEPT !.ok = d.ok, !.err = d.err]

\* A reset that restores the items of the default Environment and keeps the
\* bindings that are not among them.
Reset_keeps_user_items ==
    /\ Running
    /\ env' = [name \in Names |->
                 IF DefaultEnvironment[name] = Unbound THEN env[name]
                 ELSE DefaultEnvironment[name]]
    /\ last' = Outcome("reset", "", "", env["ans"].kind, NoResult)

\* Command::Reset.
Reset ==
    /\ Running
    /\ env' = DefaultEnvironment
    /\ last' = Outcome("reset", "", "", env["ans"].kind, NoResult)

Next ==
    \/ \E stmt \in Stmts : Run(stmt)
    \/ \E name \in DeleteNames : Delete(name)
    \/ Reset

Spec == Init /\ [][Next]_vars

(***************************************************************************)
(* The Environment driven through its public methods (env.rs), as any      *)
(* front end may call them: env is an Environment created by new(), last   *)
(* records the method called, the name it was given, the kind of item the  *)
(* name was bound to before the call, and the EvalResult.                  *)
(***************************************************************************)
\* The names, values, parameter lists and body the methods are given.
MethodNames == {"x", "f", "g", "pi", "sqrt"}

MethodValues == {Fin(0), Fin(2)}

MethodArgNames == {<<"x">>, <<"x", "y">>, <<"x", "x">>}

MethodBody == Variable("x")

Called(method, name, prior, r) ==
    Outcome(method, "", name, prior, [NoResult EXCEPT !.ok = r.ok, !.err = r.err])

\* Environment::new.
EnvInit ==
    /\ env = DefaultEnvironment
    /\ last = Called("new", "", "Unbound", EnvOk(DefaultEnvironment))

\* Environment::assign_var.
AssignVar(name, value) ==
    LET a == assign_var(env, name, value)
    IN  /\ env' = a.env
        /\ last' = Called("assign_var", name, env[name].kind, a)

\* Environment::def_func.
DefFunc(name, arg_names) ==
    LET d == def_func(env, name, arg_names, MethodBody)
    IN  /\ env' = d.env
        /\ last' = Called("def_func", name, env[name].kind, d)

\* Environment::delete.
DeleteItem(name) ==
    LET d == delete(env, name)
    IN  /\ env' = d.env
        /\ last' = Called("delete", name, env[name].kind, d)

EnvNext ==
    \/ \E name \in MethodNames : \E value \in MethodValues : AssignVar(name, value)
    \/ \E name \in MethodNames : \E arg_names \in MethodArgNames : DefFunc(name, arg_names)
    \/ \E name \in MethodNames : DeleteItem(name)

EnvSpec == EnvInit /\ [][EnvNext]_vars

(***************************************************************************)
(* language/parser.rs.  A text is a sequence of lexemes: a word (a number  *)
(* literal or an identifier, kept whole), a single character of            *)
(* punctuation, a space " " or a newline "\n"; it stands for the string of *)
(* characters that its lexemes make in a row, so "**" is two lexemes "*".  *)
(* A parser takes the text and a position and yields the value and the     *)
(* position after it, or an error; commit says whether the error came      *)
(* after input was consumed, which is what combine's choice, optional and  *)
(* many look at, and what attempt undoes.                                  *)
(***************************************************************************)
\* The number literals of the texts with the value their digits denote; the
\* last stands for any literal beyond the range of f64, such as 1e999.
NumberWords == {"1", "2", "3", "6", "1e999"}

NumberValue(word) ==
    CASE word = "1" -> 1
      [] word = "2" -> 2
      [] word = "3" -> 3
      [] word = "6" -> 6
      [] word = "1e999" -> 10 * MaxFinite

\* The identifiers of the texts: names of the Environment, and the word
\* that Display writes for an infinite value.
IdentWords == {"x", "y", "f", "g", "pi", "sqrt", "max", "inf"}

POk(val, pos) == [ok |-> TRUE, pos |-> pos, val |-> val, commit |-> FALSE]

PErr(pos, commit) == [ok |-> FALSE, pos |-> pos, val |-> <<>>, commit |-> commit]

\* The lexeme at a position; "" past the end of the text.
At(in, p) == IF p <= Len(in) THEN in[p] ELSE ""

\* spaces: skips whitespace other than newlines.
RECURSIVE spaces(_, _)
spaces(in, p) == IF At(in, p) = " " THEN spaces(in, p + 1) ELSE p

\* lex(char(c)): the character, then the spaces after it.
char(in, p, c) ==
    IF At(in, p) = c THEN POk(c, spaces(in, p + 1)) ELSE PErr(p, FALSE)

\* number: the literal, converted by str::parse.
parse_number(in, p) ==
    IF At(in, p) \in NumberWords
    THEN POk(Number(number(NumberValue(At(in, p)))), spaces(in, p + 1))
    ELSE PErr(p, FALSE)

parse_ident(in, p) ==
    IF At(in, p) \in IdentWords THEN POk(At(in, p), spaces(in, p + 1)) ELSE PErr(p, FALSE)

\* attempt: an error gives the input back.
attempt(start, r) == IF r.ok THEN r ELSE PErr(start, FALSE)

\* The fold of exp with the arguments of its closure swapped: Power(a, b).
RECURSIVE fold1_power_swapped(_, _, _)
fold1_power_swapped(rev, i, a) ==
    IF i > Len(rev) THEN a
    ELSE fold1_power_swapped(rev, i + 1, BinaryOp("Power", a, rev[i]))

\* exp's fold: the operands reversed, folded with Power(b, a).
RECURSIVE fold1_power(_, _, _)
fold1_power(rev, i, a) ==
    IF i > Len(rev) THEN a
    ELSE fold1_power(rev, i + 1, BinaryOp("Power", rev[i], a))

Reverse(seq) == [i \in 1..Len(seq) |-> seq[Len(seq) + 1 - i]]

RECURSIVE parse_expr(_, _)
RECURSIVE parse_add(_, _)
RECURSIVE parse_add_many(_, _, _)
RECURSIVE parse_mul(_, _)
RECURSIVE parse_mul_many(_, _, _)
RECURSIVE parse_negate(_, _)
RECURSIVE parse_implicit_mul(_, _)
RECURSIVE parse_implicit_mul_many(_, _, _)
RECURSIVE parse_exp(_, _)
RECURSIVE parse_exp_many(_, _, _)
RECURSIVE parse_factorial(_, _)
RECURSIVE parse_atom(_, _)
RECURSIVE parse_parens(_, _)
RECURSIVE parse_apply_func(_, _)
RECURSIVE sep_by_expr(_, _, _)

\* A parser's result bound once for the code that goes on from it: the
\* `let` of the closures and the sequencing of the combinators.
Let(r, K(_)) == K(r)

parse_expr(in, p) == parse_add(in, p)

\* add: mul, then many of (+ or -, mul), folded to the left.
parse_add(in, p) ==
    Let(parse_mul(in, p), LAMBDA lhs :
        IF ~lhs.ok THEN lhs ELSE parse_add_many(in, lhs.pos, lhs.val))

parse_add_many(in, p, a) ==
    IF At(in, p) \notin {"+", "-"} THEN POk(a, p)
    ELSE Let(parse_mul(in, spaces(in, p + 1)), LAMBDA b :
             IF ~b.ok THEN PErr(b.pos, TRUE)
             ELSE parse_add_many(in, b.pos,
                      BinaryOp(IF At(in, p) = "+" THEN "Add" ELSE "Subtract", a, b.val)))

\* The loop of mul taking the additive operators too: one tier for all five.
RECURSIVE parse_mul_many_flat(_, _, _)
parse_mul_many_flat(in, p, a) ==
    IF At(in, p) \notin {"+", "-", "*", "/", "%"} THEN POk(a, p)
    ELSE Let(parse_negate(in, spaces(in, p + 1)), LAMBDA b :
             IF ~b.ok THEN PErr(b.pos, TRUE)
             ELSE parse_mul_many_flat(in, b.pos,
                      BinaryOp(CASE At(in, p) = "+" -> "Add"
                                 [] At(in, p) = "-" -> "Subtract"
                                 [] At(in, p) = "*" -> "Multiply"
                                 [] At(in, p) = "/" -> "Divide"
                                 [] At(in, p) = "%" -> "Modulo", a, b.val)))

\* mul: negate, then many of (* or / or %, negate), folded to the left.
parse_mul(in, p) ==
    Let(parse_negate(in, p), LAMBDA lhs :
        IF ~lhs.ok THEN lhs ELSE parse_mul_many(in, lhs.pos, lhs.val))

parse_mul_many(in, p, a) ==
    IF At(in, p) \notin {"*", "·", "×", "/", "÷", "%"} THEN POk(a, p)
    ELSE Let(parse_negate(in, spaces(in, p + 1)), LAMBDA b :
             IF ~b.ok THEN PErr(b.pos, TRUE)
             ELSE parse_mul_many(in, b.pos,
                      BinaryOp(IF At(in, p) \in {"*", "·", "×"} THEN "Multiply"
                               ELSE IF At(in, p) \in {"/", "÷"} THEN "Divide"
                               ELSE "Modulo", a, b.val)))

\* negate with the sign applied to the first operand of the product only.
parse_negate_first_operand(in, p) ==
    IF At(in, p) \in {"-", "+"}
    THEN Let(parse_exp(in, spaces(in, p + 1)), LAMBDA x :
             IF ~x.ok THEN PErr(x.pos, TRUE)
             ELSE parse_implicit_mul_many(in, x.pos,
                      IF At(in, p) = "-" THEN UnaryOp("Negate", x.val) ELSE x.val))
    ELSE parse_implicit_mul(in, p)

\* negate: an optional sign, then implicit_mul; "-" wraps it in Negate.
parse_negate(in, p) ==
    Let(parse_implicit_mul(in, IF At(in, p) \in {"-", "+"} THEN spaces(in, p + 1) ELSE p),
        LAMBDA x :
            IF At(in, p) \notin {"-", "+"} THEN x
            ELSE IF ~x.ok THEN PErr(x.pos, TRUE)
            ELSE IF At(in, p) = "-" THEN POk(UnaryOp("Negate", x.val), x.pos)
            ELSE x)

\* implicit_mul: exp, then many of exp, folded to the left with Multiply.
parse_implicit_mul(in, p) ==
    Let(parse_exp(in, p), LAMBDA lhs :
        IF ~lhs.ok THEN lhs ELSE parse_implicit_mul_many(in, lhs.pos, lhs.val))

parse_implicit_mul_many(in, p, a) ==
    Let(parse_exp(in, spaces(in, p)), LAMBDA b :
        IF b.ok THEN parse_implicit_mul_many(in, b.pos, BinaryOp("Multiply", a, b.val))
        ELSE IF b.commit \/ spaces(in, p) > p THEN PErr(b.pos, TRUE)
        ELSE POk(a, p))

\* exp: factorial, then many of (^ or **, factorial), folded from the right.
parse_exp(in, p) ==
    Let(parse_factorial(in, p), LAMBDA lhs :
        IF ~lhs.ok THEN lhs ELSE parse_exp_many(in, lhs.pos, <<lhs.val>>))

parse_exp_many(in, p, operands) ==
    LET after == IF At(in, p) = "^" THEN spaces(in, p + 1)
                 ELSE IF At(in, p) = "*" /\ At(in, p + 1) = "*" THEN spaces(in, p + 2)
                 ELSE p
    IN  IF after = p
        THEN LET rev == Reverse(operands)
             IN  POk(fold1_power(rev, 2, rev[1]), p)
        ELSE Let(parse_factorial(in, after), LAMBDA b :
                 IF ~b.ok THEN PErr(b.pos, TRUE)
                 ELSE parse_exp_many(in, b.pos, Append(operands, b.val)))

\* factorial: atom, then an optional "!".
parse_factorial(in, p) ==
    Let(parse_atom(in, p), LAMBDA a :
        IF ~a.ok THEN a
        ELSE IF At(in, a.pos) = "!"
        THEN POk(UnaryOp("Factorial", a.val), spaces(in, a.pos + 1))
        ELSE a)

\* atom: parens, or number, or attempt(apply_func), or ident.
parse_atom(in, p) ==
    Let(parse_parens(in, p), LAMBDA a :
        IF a.ok \/ a.commit THEN a
        ELSE Let(parse_number(in, p), LAMBDA b :
        IF b.ok THEN b
        ELSE Let(attempt(p, parse_apply_func(in, p)), LAMBDA c :
        IF c.ok THEN c
        ELSE Let(parse_ident(in, p), LAMBDA d :
        IF d.ok THEN POk(Variable(d.val), d.pos)
        ELSE PErr(p, FALSE)))))

\* parens: an expr between "(" and ")".
parse_parens(in, p) ==
    IF At(in, p) # "(" THEN PErr(p, FALSE)
    ELSE Let(parse_expr(in, spaces(in, p + 1)), LAMBDA x :
             IF ~x.ok THEN PErr(x.pos, TRUE)
             ELSE IF At(in, x.pos) = ")" THEN POk(x.val, spaces(in, x.pos + 1))
             ELSE PErr(x.pos, TRUE))

\* sep_by(lex(expr()), lex(char(','))): the arguments of a call.
sep_by_expr(in, p, xs) ==
    Let(parse_expr(in, p), LAMBDA x :
        IF ~x.ok
        THEN IF xs = <<>> /\ ~x.commit THEN POk(<<>>, p) ELSE PErr(x.pos, TRUE)
        ELSE IF At(in, x.pos) = ","
        THEN sep_by_expr(in, spaces(in, x.pos + 1), Append(xs, x.val))
        ELSE POk(Append(xs, x.val), x.pos))

\* apply_func: ident, then the arguments between "(" and ")".
parse_apply_func(in, p) ==
    Let(parse_ident(in, p), LAMBDA name :
        IF ~name.ok THEN name
        ELSE IF At(in, name.pos) # "(" THEN PErr(name.pos, TRUE)
        ELSE Let(sep_by_expr(in, spaces(in, name.pos + 1), <<>>), LAMBDA xs :
                 IF ~xs.ok THEN PErr(xs.pos, TRUE)
                 ELSE IF At(in, xs.pos) = ")"
                 THEN POk(Function(name.val, xs.val), spaces(in, xs.pos + 1))
                 ELSE PErr(xs.pos, TRUE)))

\* sep_by(lex(ident()), lex(char(','))): the parameters of a definition.
RECURSIVE sep_by_ident(_, _, _)
sep_by_ident(in, p, xs) ==
    Let(parse_ident(in, p), LAMBDA x :
        IF ~x.ok
        THEN IF xs = <<>> THEN POk(<<>>, p) ELSE PErr(x.pos, TRUE)
        ELSE IF At(in, x.pos) = ","
        THEN sep_by_ident(in, spaces(in, x.pos + 1), Append(xs, x.val))
        ELSE POk(Append(xs, x.val), x.pos))

\* assign_var: ident, "=", expr.
parse_assign_var(in, p) ==
    Let(parse_ident(in, p), LAMBDA name :
        IF ~name.ok THEN name
        ELSE IF At(in, name.pos) # "=" THEN PErr(name.pos, TRUE)
        ELSE Let(parse_expr(in, spaces(in, name.pos + 1)), LAMBDA x :
                 IF ~x.ok THEN PErr(x.pos, TRUE)
                 ELSE POk(VariableAssignment(name.val, x.val), x.pos)))

\* def_func: ident, the parameters between "(" and ")", "=", expr.
parse_def_func(in, p) ==
    Let(parse_ident(in, p), LAMBDA name :
        IF ~name.ok THEN name
        ELSE IF At(in, name.pos) # "(" THEN PErr(name.pos, TRUE)
        ELSE Let(sep_by_ident(in, spaces(in, name.pos + 1), <<>>), LAMBDA xs :
                 IF ~xs.ok THEN PErr(xs.pos, TRUE)
                 ELSE IF At(in, xs.pos) # ")" THEN PErr(xs.pos, TRUE)
                 ELSE Let(spaces(in, xs.pos + 1), LAMBDA eq :
                          IF At(in, eq) # "=" THEN PErr(eq, TRUE)
                          ELSE Let(parse_expr(in, spaces(in, eq + 1)), LAMBDA x :
                                   IF ~x.ok THEN PErr(x.pos, TRUE)
                                   ELSE POk(FunctionDefinition(name.val, xs.val, x.val),
                                            x.pos)))))

\* stmt: attempt(def_func), or attempt(assign_var), or expr.
parse_stmt(in, p) ==
    Let(attempt(p, parse_def_func(in, p)), LAMBDA a :
        IF a.ok THEN a
        ELSE Let(attempt(p, parse_assign_var(in, p)), LAMBDA b :
        IF b.ok THEN b
        ELSE Let(parse_expr(in, p), LAMBDA c :
        IF c.ok THEN POk(Expression(c.val), c.pos)
        ELSE c)))

\* comment: "#", then everything up to the end of the line.
RECURSIVE skip_many(_, _)
skip_many(in, p) == IF At(in, p) \in {"", "\n"} THEN p ELSE skip_many(in, p + 1)

comment(in, p) ==
    IF At(in, p) = "#" THEN POk("#", skip_many(in, p + 1)) ELSE PErr(p, FALSE)

nl(in, p) == IF At(in, p) = "\n" THEN POk("\n", p + 1) ELSE PErr(p, FALSE)

\* The separator of stmt_list: ";", or a newline, or a comment and a newline.
separator(in, p) ==
    IF At(in, p) = ";" THEN char(in, p, ";")
    ELSE IF At(in, p) = "\n" THEN nl(in, p)
    ELSE Let(comment(in, p), LAMBDA c :
             attempt(p, IF c.ok THEN nl(in, c.pos) ELSE c))

\* One item of stmt_list: optional spaces, then an optional stmt.
maybe_stmt(in, p) ==
    Let(parse_stmt(in, spaces(in, p)), LAMBDA s :
        IF s.ok THEN POk(<<s.val>>, s.pos)
        ELSE IF s.commit THEN PErr(s.pos, TRUE)
        ELSE POk(<<>>, spaces(in, p)))

\* stmt_list: items separated by separators, an optional last ";" or
\* comment; the items that hold no statement are dropped.
RECURSIVE sep_by_stmt(_, _, _)
sep_by_stmt(in, p, stmts) ==
    Let(maybe_stmt(in, p), LAMBDA s :
        IF ~s.ok THEN s
        ELSE Let(separator(in, s.pos), LAMBDA sep :
                 IF sep.ok THEN sep_by_stmt(in, sep.pos, stmts \o s.val)
                 ELSE POk(stmts \o s.val, s.pos)))

parse_stmt_list(in, p) ==
    Let(sep_by_stmt(in, p, <<>>), LAMBDA xs :
        IF ~xs.ok THEN xs
        ELSE IF At(in, xs.pos) = ";" THEN POk(xs.val, spaces(in, xs.pos + 1))
        ELSE IF At(in, xs.pos) = "#" THEN POk(xs.val, skip_many(in, xs.pos + 1))
        ELSE xs)

\* eof: no input is left.
eof(in, p) == p > Len(in)

\* parse without skip(eof()): whatever stmt_list read is the result.
parse_without_eof(text) ==
    Let(parse_stmt_list(text, 1), LAMBDA xs :
        IF ~xs.ok THEN PErr(xs.pos, TRUE) ELSE POk(xs.val, spaces(text, xs.pos)))

\* parse: stmt_list, then the end of the input.
parse(text) ==
    Let(parse_stmt_list(text, 1), LAMBDA xs :
        IF ~xs.ok THEN PErr(xs.pos, TRUE)
        ELSE IF eof(text, spaces(text, xs.pos)) THEN POk(xs.val, spaces(text, xs.pos))
        ELSE PErr(spaces(text, xs.pos), TRUE))

(***************************************************************************)
(* language.rs, Display: the text of an expression, as lexemes.  Colours   *)
(* are switched off, as main.rs does for a script.                         *)
(***************************************************************************)
\* Display for Number: the shortest decimal that reads back as the value,
\* which for a literal is its own digits; "inf" for an infinite value.
fmt_Number(v) ==
    IF v.fin THEN << CHOOSE word \in NumberWords : NumberValue(word) = v.n >>
    ELSE IF IsNaN(v) THEN << "NaN" >>
    ELSE IF v.n < 0 THEN << "-", "inf" >>
    ELSE << "inf" >>

fmt_BinaryOp(op) ==
    CASE op = "Add" -> "+"
      [] op = "Subtract" -> "-"
      [] op = "Multiply" -> "×"
      [] op = "Divide" -> "/"
      [] op = "Modulo" -> "%"
      [] op = "Power" -> "^"

precedence(op) ==
    CASE op \in {"Add", "Subtract"} -> 0
      [] op \in {"Multiply", "Divide", "Modulo"} -> 1
      [] op = "Power" -> 2

\* join(", "): the texts with a comma and a space between them.
RECURSIVE join(_, _)
join(texts, i) ==
    IF i > Len(texts) THEN << >>
    ELSE IF i = Len(texts) THEN texts[i]
    ELSE texts[i] \o << ",", " " >> \o join(texts, i + 1)

RECURSIVE fmt_Expression(_)
fmt_Expression(expr) ==
    LET paren(x) == << "(" >> \o fmt_Expression(x) \o << ")" >>
        operand(x) == IF x.t \in {"UnaryOp", "BinaryOp"} THEN paren(x) ELSE fmt_Expression(x)
    IN  CASE expr.t = "Number" -> fmt_Number(expr.value)
          [] expr.t = "Variable" -> << expr.name >>
          [] expr.t = "Function" ->
                << expr.name, "(" >>
                \o join([i \in 1..Len(expr.args) |-> fmt_Expression(expr.args[i])], 1)
                \o << ")" >>
          [] expr.t = "UnaryOp" ->
                (IF expr.op = "Negate" THEN << "-" >> ELSE << >>)
                \o operand(expr.x)
                \o (IF expr.op = "Factorial" THEN << "!" >> ELSE << >>)
          [] expr.t = "BinaryOp" /\ expr.op = "Power" ->
                operand(expr.a) \o << "^" >> \o operand(expr.b)
          [] expr.t = "BinaryOp" /\ expr.op # "Power" ->
                (IF expr.a.t = "BinaryOp" /\ precedence(expr.a.op) < precedence(expr.op)
                 THEN paren(expr.a) ELSE fmt_Expression(expr.a))
                \o << " ", fmt_BinaryOp(expr.op), " " >>
                \o (IF expr.b.t = "BinaryOp" /\ precedence(expr.b.op) <= precedence(expr.op)
                    THEN paren(expr.b) ELSE fmt_Expression(expr.b))

(***************************************************************************)
(* The texts given to the parser, and the specification that parses them,  *)
(* displays what was parsed and parses what was displayed.                 *)
(***************************************************************************)
\* The operands and operators of the expressions that are built in full.
TreeAtoms == {Lit(2), Variable("x")}

TreeUnaryOps == {"Negate", "Factorial"}

TreeBinaryOps == {"Subtract", "Multiply", "Power"}

Grow(exprs) ==
    {UnaryOp(op, x) : op \in TreeUnaryOps, x \in exprs}
    \cup {BinaryOp(op, a, b) : op \in TreeBinaryOps, a \in exprs, b \in exprs}

\* Calls, alone and as operands, and the literal beyond the range of f64.
SpecialTrees ==
    {Function("f", << >>),
     Function("max", <<Lit(1), BinaryOp("Add", Lit(2), Lit(3))>>),
     BinaryOp("Power", Function("sqrt", <<Variable("x")>>), Lit(2)),
     UnaryOp("Factorial", Function("f", <<Lit(1)>>)),
     BinaryOp("Multiply", Variable("f"), BinaryOp("Add", Lit(1), Lit(2))),
     BinaryOp("Divide", Lit(6), BinaryOp("Modulo", Lit(3), Lit(2))),
     HugeLiteral,
     BinaryOp("Add", HugeLiteral, Lit(1))}

Trees == TreeAtoms \cup Grow(TreeAtoms) \cup Grow(TreeAtoms \cup Grow(TreeAtoms)) \cup SpecialTrees

\* The digits of a literal of a given value.
Literal(v) ==
    IF v.fin THEN CHOOSE word \in NumberWords : NumberValue(word) = v.n ELSE "1e999"

\* An expression written with every operand in parentheses.
RECURSIVE Parenthesized(_)
Parenthesized(tree) ==
    LET paren(x) == << "(" >> \o Parenthesized(x) \o << ")" >>
        sym(op) == CASE op = "Add" -> "+" [] op = "Subtract" -> "-" [] op = "Multiply" -> "*"
                     [] op = "Divide" -> "/" [] op = "Modulo" -> "%" [] op = "Power" -> "^"
    IN  CASE tree.t = "Number" -> << Literal(tree.value) >>
          [] tree.t = "Variable" -> << tree.name >>
          [] tree.t = "Function" ->
                << tree.name, "(" >>
                \o join([i \in 1..Len(tree.args) |-> Parenthesized(tree.args[i])], 1)
                \o << ")" >>
          [] tree.t = "UnaryOp" /\ tree.op = "Negate" -> << "-" >> \o paren(tree.x)
          [] tree.t = "UnaryOp" /\ tree.op = "Factorial" -> paren(tree.x) \o << "!" >>
          [] tree.t = "BinaryOp" -> paren(tree.a) \o << sym(tree.op) >> \o paren(tree.b)

TreeTexts == {Parenthesized(tree) : tree \in Trees}

\* Chains of powers: operands with "^" or "**" between them.
PowerWords == {"2", "3", "x"}

MaxOperands == 4

PowerOperands == UNION {[1..n -> PowerWords] : n \in 2..MaxOperands}

PowerOperators(n) == [1..n -> {"^", "**"}]

RECURSIVE PowerChain(_, _, _)
PowerChain(operands, ops, i) ==
    IF i = Len(operands) THEN << operands[i] >>
    ELSE << operands[i] >>
         \o (IF ops[i] = "^" THEN << "^" >> ELSE << "*", "*" >>)
         \o PowerChain(operands, ops, i + 1)

PowerTexts ==
    {PowerChain(operands, ops, 1) :
        operands \in PowerOperands, ops \in PowerOperators(MaxOperands - 1)}

\* Explicit operators of the two lower tiers between three operands, plain
\* and with either pair in parentheses, with and without spaces; and chains
\* of one tier.
InfixSymbols == {"+", "-", "*", "/", "%"}

InfixOperands == {<<"1", "2", "3">>, <<"x", "y", "g">>}

Gaps == {<< >>, << " " >>}

Infix(w, o1, o2, gap) ==
    << w[1] >> \o gap \o << o1 >> \o gap \o << w[2] >> \o gap \o << o2 >> \o gap \o << w[3] >>

InfixLeft(w, o1, o2, gap) ==
    << "(", w[1] >> \o gap \o << o1 >> \o gap \o << w[2], ")" >> \o gap \o << o2 >> \o gap
    \o << w[3] >>

InfixRight(w, o1, o2, gap) ==
    << w[1] >> \o gap \o << o1 >> \o gap \o << "(", w[2] >> \o gap \o << o2 >> \o gap
    \o << w[3], ")" >>

ChainOperands == <<"6", "x", "2", "3">>

ChainSymbols == [1..3 -> {"+", "-"}] \cup [1..3 -> {"*", "/", "%"}]

Chain(w, syms) ==
    << w[1], syms[1], w[2], " ", syms[2], " ", w[3], syms[3], w[4] >>

InfixTexts ==
    {Infix(w, o1, o2, gap) : w \in InfixOperands, o1 \in InfixSymbols, o2 \in InfixSymbols, gap \in Gaps}
    \cup {InfixLeft(w, o1, o2, gap) : w \in InfixOperands, o1 \in InfixSymbols, o2 \in InfixSymbols, gap \in Gaps}
    \cup {InfixRight(w, o1, o2, gap) : w \in InfixOperands, o1 \in InfixSymbols, o2 \in InfixSymbols, gap \in Gaps}
    \cup {Chain(ChainOperands, syms) : syms \in ChainSymbols}

\* Operands of implicit_mul, each with the expression it parses to: atoms,
\* a factorial and a power.
Factors ==
    {[text |-> <<"2">>, tree |-> Lit(2)],
     [text |-> <<"pi">>, tree |-> Variable("pi")],
     [text |-> <<"(", "1", "+", "2", ")">>, tree |-> BinaryOp("Add", Lit(1), Lit(2))],
     [text |-> <<"sqrt", "(", "x", ")">>, tree |-> Function("sqrt", <<Variable("x")>>)],
     [text |-> <<"3", "!">>, tree |-> UnaryOp("Factorial", Lit(3))],
     [text |-> <<"2", "^", "3">>, tree |-> BinaryOp("Power", Lit(2), Lit(3))]}

\* An identifier followed by "(" is the start of a call, not two operands.
StartsCall(l, r) == Len(l.text) = 1 /\ l.text[1] \in IdentWords /\ r.text[1] = "("

\* Whether two operands written with nothing between them stay two lexemes.
Joinable(l, r) ==
    \/ l.text[Len(l.text)] \in {")", "!"}
    \/ r.text[1] = "("
    \/ l.text[Len(l.text)] \in NumberWords /\ r.text[1] \in IdentWords

Adjacent(l, r, gap) == l.text \o gap \o r.text

ImplicitTexts ==
    {Adjacent(l, r, <<" ">>) : l \in Factors, r \in Factors}
    \cup {Adjacent(p[1], p[2], << >>) : p \in {q \in Factors \X Factors : Joinable(q[1], q[2])}}
    \cup {Adjacent(l, r, <<" ">>) \o <<" ">> \o t.text : l \in Factors, r \in Factors, t \in Factors}
    \cup {<<sgn>> \o Adjacent(l, r, <<" ">>) : sgn \in {"-", "+"}, l \in Factors, r \in Factors}
    \cup {<<"6", " ", sym, " ">> \o Adjacent(l, r, <<" ">>) :
            sym \in {"*", "/", "%"}, l \in Factors, r \in Factors}
    \cup {Adjacent(l, r, <<" ">>) \o <<" ", sym, " ", "6">> :
            sym \in {"*", "/", "%"}, l \in Factors, r \in Factors}
    \cup {<<"2", "*", "pi">>, <<"-", "2", " ", "pi">>, <<"6", " ", "/", " ", "2", " ", "3">>}

\* The most statements in one text.
MaxStmts == 3

\* Scripts: statements, some of them blank, with separators between them and
\* an optional end; and scripts followed by lexemes no statement goes on with.
Pieces ==
    {<<"1">>,
     <<"x", " ", "=", " ", "2">>,
     <<"f", "(", "x", ")", " ", "=", " ", "x">>,
     << >>}

Separators == {<<";">>, <<"\n">>, <<" ", "#", "note", ";", "\n", " ">>}

Trailers == {<< >>, <<";">>, <<" ", "#", "end">>}

Junk == {<<")">>, <<" ", "=">>, <<"!", "!">>}

RECURSIVE Script(_, _, _)
Script(pieces, seps, i) ==
    IF i = Len(pieces) THEN pieces[i]
    ELSE pieces[i] \o seps[i] \o Script(pieces, seps, i + 1)

Scripts(n) == {Script(pieces, seps, 1) : pieces \in [1..n -> Pieces], seps \in [1..(n - 1) -> Separators]}

ScriptTexts == {script \o trailer : script \in UNION {Scripts(n) : n \in 1..MaxStmts}, trailer \in Trailers}

JunkTexts == {script \o junk : script \in Scripts(1) \cup Scripts(2), junk \in Junk}

\* The texts given to the parser.
Texts == TreeTexts \cup PowerTexts \cup InfixTexts \cup ImplicitTexts \cup ScriptTexts \cup JunkTexts

\* What the last step was: the text it read or wrote, whether the parser
\* accepted it, the statements parsed, where the parser stopped, and the
\* expression displayed.
Step(cmd, text, r, shown) ==
    [cmd |-> cmd, text |-> text, ok |-> r.ok, stmts |-> r.val, pos |-> r.pos, expr |-> shown]

NoExpression == Number(NaN)

\* A text is given.
ParseInit ==
    /\ env = DefaultEnvironment
    /\ \E text \in Texts : last = Step("read", text, POk(<< >>, 1), NoExpression)

\* language::parse on the text given.
Parse ==
    /\ last.cmd = "read"
    /\ last' = Step("parse", last.text, parse(last.text), NoExpression)
    /\ UNCHANGED env

\* format!("{}", stmt) on a parsed expression statement.
Display(i) ==
    /\ last.cmd \in {"parse", "reparse"} /\ last.ok
    /\ i \in 1..Len(last.stmts)
    /\ last.stmts[i].s = "Expression"
    /\ last' = Step("display", fmt_Expression(last.stmts[i].expr), POk(last.stmts, 1),
                    last.stmts[i].expr)
    /\ UNCHANGED env

\* language::parse on the text that Display wrote.
ParseDisplayed ==
    /\ last.cmd = "display"
    /\ last' = Step("reparse", last.text, parse(last.text), last.expr)
    /\ UNCHANGED env

ParseNext ==
    \/ Parse
    \/ \E i \in 1..MaxStmts : Display(i)
    \/ ParseDisplayed

ParseSpec == ParseInit /\ [][ParseNext]_vars

(***************************************************************************)
(* The session fed whole lines (repl.rs Repl::run, main.rs run_script): a  *)
(* line is parsed as a whole before any of its statements is executed.     *)
(***************************************************************************)
ParseFailure == StmtResult(EvalErr("ParseError", NaN, "", 0, 0, <<>>, <<>>), FALSE)

\* The loop that records a failure and goes on with the statements after it.
RECURSIVE exec_stmts_goes_on_after_error(_, _, _, _)
exec_stmts_goes_on_after_error(stmts, i, e, res) ==
    IF i > Len(stmts) THEN [env |-> e, res |-> res, executed |-> Len(stmts), parsed |-> TRUE]
    ELSE Let(exec_stmt(stmts[i], e), LAMBDA out :
             exec_stmts_goes_on_after_error(stmts, i + 1, out.env,
                 IF ~res.ok THEN res
                 ELSE IF ~out.res.ok \/ out.res.some THEN out.res
                 ELSE res))

\* The loop over the parsed statements: it stops at the first that fails;
\* res is the value so far, that of the last statement that gave one
\* (value.or(last)).
RECURSIVE exec_stmts(_, _, _, _)
exec_stmts(stmts, i, e, res) ==
    IF i > Len(stmts) THEN [env |-> e, res |-> res, executed |-> Len(stmts), parsed |-> TRUE]
    ELSE Let(exec_stmt(stmts[i], e), LAMBDA out :
             IF ~out.res.ok
             THEN [env |-> out.env, res |-> out.res, executed |-> i, parsed |-> TRUE]
             ELSE exec_stmts(stmts, i + 1, out.env, IF out.res.some THEN out.res ELSE res))

\* A line run as far as its statements parse, the rest reported as the error.
run_script_as_far_as_parsed(text, e) ==
    Let(parse_stmt_list(text, 1), LAMBDA read :
        IF ~read.ok THEN [env |-> e, res |-> ParseFailure, executed |-> 0, parsed |-> FALSE]
        ELSE IF eof(text, spaces(text, read.pos)) THEN exec_stmts(read.val, 1, e, NoResult)
        ELSE [exec_stmts(read.val, 1, e, NoResult) EXCEPT !.res = ParseFailure, !.parsed = FALSE])

\* run_script, and Repl::run on a line that is no command: parse, and only
\* then the statements.
run_script(text, e) ==
    Let(parse(text), LAMBDA r :
        IF ~r.ok THEN [env |-> e, res |-> ParseFailure, executed |-> 0, parsed |-> FALSE]
        ELSE exec_stmts(r.val, 1, e, NoResult))

\* The lines of the session: some parse, some end in a syntax error after
\* statements that are well formed.
Lines ==
    {<<"x", " ", "=", " ", "1">>,
     <<"x", "=", "2", ";", " ", "y", "=", "x">>,
     <<"y", " ", "=", " ", "3", "\n", "g", " ", "=", " ", "y", " ", "x">>,
     <<"f", "(", "x", ")", " ", "=", " ", "2", "x", ";", "f", "(", "3", ")">>,
     <<"y">>,
     <<"x", "=", "6", ";", "pi", "=", "2", ";", "y", "=", "6">>,
     <<"y", "=", "2", ";", "g", "(", "x", ")", "=", "x">>,
     <<"x", "=", "3", ";", " ", "y", "=", "6", " ", ")">>,
     <<"y", "=", "1", ";", "1", " ", "+">>,
     <<"f", "(", "x", ")", "=", "x", ";", "g", "=", "2", ";", "(">>,
     <<"x", "=", "=", "2">>}

\* What the session remembers of its last line: the text, whether it parsed,
\* on how many of its statements exec_stmt was called, how it ended, the
\* value reported for it, and whether the line before it failed to parse.
Response(text, out, after_error) ==
    [cmd |-> "line", text |-> text, parsed |-> out.parsed, executed |-> out.executed,
     ok |-> out.res.ok, err |-> out.res.err,
     some |-> out.res.ok /\ out.res.some,
     value |-> IF out.res.ok /\ out.res.some THEN out.res.val ELSE NaN,
     after_error |-> after_error]

LineInit ==
    /\ env = DefaultEnvironment
    /\ last = [Response(<< >>, [parsed |-> TRUE, executed |-> 0, res |-> NoResult], FALSE)
                  EXCEPT !.cmd = "none"]

\* Repl::run on a line.
RunLine(text) ==
    \E out \in {run_script(text, env)} :
        /\ env' = out.env
        /\ last' = Response(text, out, last.cmd = "line" /\ ~last.parsed)

LineNext == \E text \in Lines : RunLine(text)

LineSpec == LineInit /\ [][LineNext]_vars

(***************************************************************************)
(* Properties.  Each is stated over every reachable Environment and every  *)
(* statement of the universe; the witnesses are states the session reaches *)
(* right after the operation in question.                                  *)
(***************************************************************************)
\* The variants of EvalError.
EvalErrors == {"NumericalError", "TypeError", "ReferenceError", "ArityError", "DefinitionError"}

\* An item that assign_var, def_func and delete refuse to touch.
Immutable(item) == item.kind = "Constant" \/ (IsFunction(item) /\ is_builtin(item))

\* The Numbers the properties hand to operations directly.
Values == {Fin(0), Fin(1), Fin(2)}

\* The evaluation of an expression against the Environment e as both the
\* global and the local one.
Eval(expr, e) == eval_expr(expr, <<e>>, 1, 1, 0)

\* C1: errors leave the Environment unchanged.  Whenever exec_stmt fails with
\* an EvalError, the Environment after the call is identical to the one
\* before it: an assignment or a definition commits only after evaluation
\* and validation have succeeded.
C1_ErrorsLeaveEnvironmentUnchanged ==
    \A stmt \in Stmts :
        LET out == exec_stmt(stmt, env)
        IN  (~out.res.ok /\ out.res.err \in EvalErrors) => out.env = env

\* An assignment has just been refused with the session holding user
\* bindings.
C1_Witness ==
    /\ last.cmd = "stmt" /\ last.kind = "VariableAssignment"
    /\ ~last.ok /\ last.err = "TypeError"
    /\ env["x"].kind = "Variable"

\* C2: constant immutability.  For every name bound to a Constant or to a
\* built-in function, assign_var fails with TypeError, and so does the
\* statement name = expr once expr has evaluated; the binding, and the whole
\* Environment, stay as they were.
C2_ConstantImmutability ==
    /\ \A name \in Names : \A value \in Values :
            Immutable(env[name]) =>
                LET a == assign_var(env, name, value)
                IN  ~a.ok /\ a.err = "TypeError" /\ a.env = env
    /\ \A stmt \in AssignmentStmts :
            Immutable(env[stmt.name]) =>
                LET out == exec_stmt(stmt, env)
                IN  /\ ~out.res.ok
                    /\ out.env = env
                    /\ Eval(stmt.expr, env).ok =>
                            out.res.err = "TypeError" /\ out.res.name = stmt.name

\* The assignment to the built-in constant pi has just been refused.
C2_Witness ==
    /\ last.cmd = "stmt" /\ last.kind = "VariableAssignment" /\ last.target = "pi"
    /\ ~last.ok /\ last.err = "TypeError" /\ last.name = "pi"
    /\ env["pi"] = DefaultEnvironment["pi"]

\* C3: after every statement that yields Some(value), resolving ans and _
\* gives exactly that value, and both are bound as Constants, whatever they
\* were bound to before.
C3_AnsRebinding ==
    \A stmt \in Stmts :
        LET out == exec_stmt(stmt, env)
        IN  (out.res.ok /\ out.res.some) =>
                \A name \in {"ans", "_"} :
                    /\ out.env[name] = FieldConstant(out.res.val)
                    /\ resolve_field(out.env, name) = FieldOk(out.res.val)

\* A statement has just yielded a value with ans bound to a user-defined
\* function before it, and ans is a constant now.
C3_Witness ==
    /\ last.cmd = "stmt" /\ last.ok /\ last.some
    /\ last.prior = "UserDefined"
    /\ env["ans"].kind = "Constant" /\ env["_"] = env["ans"]

\* Whether the expression holds a call of the function name.
RECURSIVE Calls(_, _)
Calls(expr, name) ==
    CASE expr.t = "Number" -> FALSE
      [] expr.t = "Variable" -> FALSE
      [] expr.t = "Function" ->
            expr.name = name \/ \E i \in 1..Len(expr.args) : Calls(expr.args[i], name)
      [] expr.t = "UnaryOp" -> Calls(expr.x, name)
      [] expr.t = "BinaryOp" -> Calls(expr.a, name) \/ Calls(expr.b, name)

\* How many times the evaluation entered the body of the function name.
Entries(log, name) ==
    Cardinality({i \in 1..Len(log) : log[i].what = "enter" /\ log[i].name = name})

\* The expression statements that call the function name.
CallStmts(name) ==
    {stmt \in ExpressionStmts : stmt.expr.t = "Function" /\ stmt.expr.name = name}

\* C4: with a user-defined function whose body calls itself, such as
\* f(x) = f(x) + 1, bound in the Environment, calling it fails with
\* ReferenceError for the function's own name: the name is absent from the
\* call-local Environment, the body is entered once and never a second
\* time, and the evaluation does not run away.
C4_SelfRecursionRejected ==
    \A name \in UserNames :
        (env[name].kind = "UserDefined" /\ Calls(env[name].expr, name)
            /\ name \notin Range(env[name].arg_names)) =>
            \A stmt \in CallStmts(name) :
                Len(stmt.expr.args) = Len(env[name].arg_names) =>
                    LET out == exec_stmt(stmt, env)
                    IN  /\ ~out.res.ok
                        /\ out.res.err = "ReferenceError"
                        /\ out.res.name = name
                        /\ Entries(out.res.log, name) = 1
                        /\ out.env = env

\* The call of the self-recursive f has just failed on the name f, from
\* within the body of f.
C4_Witness ==
    /\ last.cmd = "stmt" /\ last.kind = "Expression"
    /\ ~last.ok /\ last.err = "ReferenceError" /\ last.name = "f"
    /\ last.entered = {"f"}
    /\ env["f"].kind = "UserDefined" /\ Calls(env["f"].expr, "f")

\* Whether the statement binds the name y by itself: an assignment to y, a
\* definition of y, or, for ans and _, any statement that yields a value.
Binds(stmt, y) ==
    \/ stmt.s # "Expression" /\ stmt.name = y
    \/ y \in {"ans", "_"} /\ stmt.s # "FunctionDefinition"

CallLocal(e, name, arg_names, args) ==
    [n \in DOMAIN e |->
        IF \E i \in 1..Len(arg_names) : arg_names[i] = n
        THEN FieldConstant(args[CHOOSE i \in 1..Len(arg_names) :
                                    arg_names[i] = n /\ \A j \in (i + 1)..Len(arg_names) : arg_names[j] # n])
        ELSE IF n = name THEN Unbound
        ELSE e[n]]

\* The values of a call's arguments that are number literals.
LiteralArgs(args) == [i \in 1..Len(args) |-> args[i].value]

\* The expression statements that call a function with number literals.
LiteralCallStmts ==
    {stmt \in ExpressionStmts :
        /\ stmt.expr.t = "Function"
        /\ \A i \in 1..Len(stmt.expr.args) : stmt.expr.args[i].t = "Number"}

\* C6: function definitions are lazy.  FunctionDefinition stores the body
\* unevaluated under the name, returns None and rebinds neither ans nor _;
\* each later call evaluates the stored body against the bindings current
\* at the time of the call, so that f(x) = x * y follows y.
C6_LazyFunctionDefinition ==
    /\ \A stmt \in DefinitionStmts :
            LET out == exec_stmt(stmt, env)
            IN  IF find_duplicate(stmt.arg_names) = {} /\ ~Immutable(env[stmt.name])
                THEN /\ out.res.ok /\ ~out.res.some
                     /\ out.env = [env EXCEPT ![stmt.name] = UserDefined(stmt.arg_names, stmt.expr)]
                ELSE ~out.res.ok
    /\ \A stmt \in LiteralCallStmts :
            LET func == env[stmt.expr.name]
                args == LiteralArgs(stmt.expr.args)
                out == exec_stmt(stmt, env)
                body == eval_expr(func.expr,
                                  <<env, CallLocal(env, stmt.expr.name, func.arg_names, args)>>,
                                  1, 2, 1)
            IN  (func.kind = "UserDefined" /\ Len(args) = Len(func.arg_names)) =>
                    /\ out.res.ok = body.ok
                    /\ out.res.err = body.err
                    /\ out.res.val = body.val
    /\ (env["f"] = UserDefined(<<"x">>, BinaryOp("Multiply", Variable("x"), Variable("y")))
            /\ IsField(env["y"]) /\ is_finite(env["y"].value)) =>
            LET out == exec_stmt(Expression(Function("f", <<Lit(1)>>)), env)
            IN  out.res.ok /\ out.res.val = env["y"].value

\* f(x) = x * y has just been defined: the body is stored as written, y is
\* bound, and ans and _ are the constants they were.
C6_Witness ==
    /\ last.cmd = "stmt" /\ last.kind = "FunctionDefinition" /\ last.target = "f"
    /\ last.ok /\ ~last.some
    /\ env["f"] = UserDefined(<<"x">>, BinaryOp("Multiply", Variable("x"), Variable("y")))
    /\ env["y"] = FieldVariable(Fin(2))
    /\ env["ans"] = FieldConstant(Fin(1)) /\ env["_"] = FieldConstant(Fin(1))

\* The declared parameter count of a function.
Declared(func) ==
    IF func.kind = "UserDefined" THEN Len(func.arg_names)
    ELSE IF func.kind = "NullaryBuiltin" THEN 0
    ELSE IF func.kind = "UnaryBuiltin" THEN 1
    ELSE 2

\* Argument lists of every length up to three.
ArgLists == {<<>>, <<Fin(1)>>, <<Fin(1), Fin(2)>>, <<Fin(1), Fin(2), Fin(0)>>}

\* C7: arity enforcement.  Applying a function, built-in or user-defined, to
\* a number of arguments other than its declared parameter count fails with
\* ArityError carrying the name, the expected count and the actual count;
\* neither the native operation nor the body is applied.  A call statement
\* whose callee resolves and whose arguments evaluate fails the same way and
\* leaves the Environment alone.
C7_ArityEnforcement ==
    /\ \A name \in Names : \A args \in ArgLists :
            (IsFunction(env[name]) /\ Len(args) # Declared(env[name])) =>
                LET r == eval_func(name, env[name], args, <<env>>, 1, 0)
                IN  /\ ~r.ok /\ r.err = "ArityError"
                    /\ r.name = name
                    /\ r.expected = Declared(env[name])
                    /\ r.got = Len(args)
                    /\ r.log = <<>>
                    /\ r.heap = <<env>>
    /\ \A stmt \in ExpressionStmts :
            (stmt.expr.t = "Function" /\ IsFunction(env[stmt.expr.name])
                /\ Len(stmt.expr.args) # Declared(env[stmt.expr.name])) =>
                LET out == exec_stmt(stmt, env)
                    evaluated == eval_args(stmt.expr.args, 1, <<>>, <<env>>, 1, 1, 0)
                IN  evaluated.r.ok =>
                        /\ ~out.res.ok /\ out.res.err = "ArityError"
                        /\ out.res.name = stmt.expr.name
                        /\ out.res.expected = Declared(env[stmt.expr.name])
                        /\ out.res.got = Len(stmt.expr.args)
                        /\ out.res.log = evaluated.r.log
                        /\ out.env = env

\* A call of the user-defined g has just failed with ArityError, g's body
\* not entered.
C7_Witness ==
    /\ last.cmd = "stmt" /\ last.kind = "Expression"
    /\ ~last.ok /\ last.err = "ArityError" /\ last.name = "g"
    /\ last.entered = {}
    /\ env["g"].kind = "UserDefined"

\* The statements that evaluate an expression.
EvaluatingStmts == ExpressionStmts \cup AssignmentStmts

\* C8: finite-value fail-fast.  The first operator or built-in application
\* that produces NaN or an infinity ends the evaluation with NumericalError
\* and nothing is applied after it, so that with operands evaluated left to
\* right the error is that of the first failing sub-evaluation; 1/0 and
\* sqrt(-1) fail in this way; and no successful evaluation returns a
\* non-finite Number: the value a statement has just yielded, which ans
\* holds, is finite.
C8_FiniteValueFailFast ==
    /\ \A stmt \in EvaluatingStmts :
            LET r == Eval(stmt.expr, env)
            IN  /\ \A i \in 1..Len(r.log) :
                        (r.log[i].what = "apply" /\ ~is_finite(r.log[i].out)) =>
                            /\ i = Len(r.log)
                            /\ ~r.ok /\ r.err = "NumericalError"
                            /\ r.val = r.log[i].out
    /\ \A expr \in {OneOverZero, SqrtMinusOne} :
            LET r == Eval(expr, env)
            IN  ~r.ok /\ r.err = "NumericalError"
    /\ (last.cmd = "stmt" /\ last.ok /\ last.some) =>
            /\ IsField(env["ans"])
            /\ is_finite(env["ans"].value)

\* C9: call isolation.  An evaluation leaves the global Environment object
\* as it found it, whatever the call-local clones went through: parameter
\* names shadow only inside the call and the callee's name is removed only
\* there.  An expression statement changes nothing but ans and _, and
\* nothing at all when it fails.
C9_CallIsolation ==
    /\ \A stmt \in EvaluatingStmts : Eval(stmt.expr, env).heap[1] = env
    /\ \A stmt \in ExpressionStmts :
            LET out == exec_stmt(stmt, env)
            IN  IF out.res.ok
                THEN out.env = [env EXCEPT !["ans"] = FieldConstant(out.res.val),
                                           !["_"] = FieldConstant(out.res.val)]
                ELSE out.res.err \in EvalErrors => out.env = env

\* g, whose parameter is named f, has just been called and returned: f and
\* g are the user-defined functions they were.
C9_Witness ==
    /\ last.cmd = "stmt" /\ last.kind = "Expression" /\ last.ok
    /\ "g" \in last.entered
    /\ env["g"] = UserDefined(<<"f">>, BinaryOp("Add", Variable("f"), Lit(1)))
    /\ env["f"].kind = "UserDefined"

\* C10: delete fails with ReferenceError on an unbound name and with
\* TypeError on a Constant or a built-in function, the Environment left as
\* it was; otherwise it removes exactly that binding, after which the name
\* resolves neither as a field nor as a function.
C10_DeleteSemantics ==
    \A name \in Names :
        LET d == delete(env, name)
        IN  IF env[name] = Unbound
            THEN ~d.ok /\ d.err = "ReferenceError" /\ d.env = env
            ELSE IF Immutable(env[name])
            THEN ~d.ok /\ d.err = "TypeError" /\ d.env = env
            ELSE /\ d.ok
                 /\ d.env = [env EXCEPT ![name] = Unbound]
                 /\ resolve_field(d.env, name).err = "ReferenceError"
                 /\ resolve_func(d.env, name).err = "ReferenceError"

\* The variable x has just been deleted; y and f are still bound.
C10_Witness ==
    /\ last.cmd = "delete" /\ last.target = "x" /\ last.ok
    /\ env["x"] = Unbound
    /\ env["y"].kind = "Variable"
    /\ env["f"].kind = "UserDefined"

\* Whether a list of parameter names holds no name twice.
Distinct(xs) == \A i \in 1..Len(xs) : \A j \in 1..Len(xs) : xs[i] = xs[j] => i = j

\* Parameter lists, with and without a repeated name.
ArgNameLists == {<<"x">>, <<"x", "y">>, <<"x", "x">>, <<"f", "g", "g">>}

\* The body handed to def_func directly.
Bodies == {Variable("x")}

\* C11: def_func fails with DefinitionError when arg_names holds the same
\* identifier twice and, the parameters being distinct, with TypeError when
\* the name is bound to a Constant or a built-in function, the Environment
\* unchanged in both cases; otherwise it binds the name to
\* UserDefined{arg_names, expr}.  Hence every user-defined function in the
\* Environment has pairwise distinct parameter names.
C11_DefFuncValidation ==
    /\ \A name \in Names : \A arg_names \in ArgNameLists : \A expr \in Bodies :
            LET d == def_func(env, name, arg_names, expr)
            IN  IF ~Distinct(arg_names)
                THEN ~d.ok /\ d.err = "DefinitionError" /\ d.env = env
                ELSE IF Immutable(env[name])
                THEN ~d.ok /\ d.err = "TypeError" /\ d.env = env
                ELSE d.ok /\ d.env = [env EXCEPT ![name] = UserDefined(arg_names, expr)]
    /\ \A name \in Names :
            env[name].kind = "UserDefined" => Distinct(env[name].arg_names)

\* def_func has just refused a repeated parameter for g, which stays the
\* user-defined function it was.
C11_Witness ==
    /\ last.cmd = "def_func" /\ last.target = "g" /\ last.prior = "UserDefined"
    /\ ~last.ok /\ last.err = "DefinitionError"
    /\ env["g"] = UserDefined(<<"x", "y">>, MethodBody)

\* C12: a name denotes one item at a time and may change kind.  assign_var
\* on a name bound to a Variable or a user-defined function succeeds and
\* leaves it bound to Variable(value) alone, so that resolve_func fails with
\* TypeError; def_func on such a name succeeds and leaves it bound to the
\* new function alone, so that resolve_field fails with TypeError.  The
\* rebinding is refused only over a Constant or a built-in function.
C12_OneItemPerName ==
    /\ \A name \in Names : ~(resolve_field(env, name).ok /\ resolve_func(env, name).ok)
    /\ \A name \in Names : \A value \in {Fin(0), Fin(2)} :
            LET a == assign_var(env, name, value)
            IN  /\ ~a.ok <=> Immutable(env[name])
                /\ env[name].kind \in {"Variable", "UserDefined"} =>
                        /\ a.ok
                        /\ a.env = [env EXCEPT ![name] = FieldVariable(value)]
                        /\ resolve_field(a.env, name) = FieldOk(value)
                        /\ resolve_func(a.env, name).err = "TypeError"
    /\ \A name \in Names : \A arg_names \in {xs \in ArgNameLists : Distinct(xs)} :
        \A expr \in Bodies :
            LET d == def_func(env, name, arg_names, expr)
            IN  /\ ~d.ok <=> Immutable(env[name])
                /\ env[name].kind \in {"Variable", "UserDefined"} =>
                        /\ d.ok
                        /\ d.env = [env EXCEPT ![name] = UserDefined(arg_names, expr)]
                        /\ resolve_func(d.env, name) = FuncOk(UserDefined(arg_names, expr))
                        /\ resolve_field(d.env, name).err = "TypeError"

\* assign_var has just succeeded on g, a user-defined function before the
\* call and a variable now, while f went the other way earlier.
C12_Witness ==
    /\ last.cmd = "assign_var" /\ last.target = "g" /\ last.prior = "UserDefined"
    /\ last.ok
    /\ env["g"] = FieldVariable(Fin(2))
    /\ env["f"].kind = "UserDefined"
    /\ env["x"].kind = "Variable"

\* C13: Display round trip.  For every expression the parser can produce,
\* parsing the text Display writes for it succeeds and yields one expression
\* statement that holds the same tree, which therefore evaluates to the same
\* result in any Environment.
C13_DisplayRoundTrip ==
    last.cmd = "reparse" =>
        /\ last.ok
        /\ last.stmts = << Expression(last.expr) >>

\* The expression a word of a text stands for.
AtomOf(word) ==
    IF word \in NumberWords THEN Number(number(NumberValue(word))) ELSE Variable(word)

\* The operands of a chain of powers, in the order of the text.
IsPowerWord(word) == word \in PowerWords

Operands(text) == SelectSeq(text, IsPowerWord)

\* The operands of a chain grouped from the right: a ^ (b ^ (c ^ ...)).
RECURSIVE RightNested(_, _)
RightNested(operands, i) ==
    IF i = Len(operands) THEN AtomOf(operands[i])
    ELSE BinaryOp("Power", AtomOf(operands[i]), RightNested(operands, i + 1))

\* The value of an expression of literals and operators: each operator
\* applied to the values of its operands, the first error ending it.
RECURSIVE eval_number(_)
eval_number(tree) ==
    CASE tree.t = "Number" -> NumOk(tree.value)
      [] tree.t = "UnaryOp" ->
            LET x == eval_number(tree.x)
            IN  IF ~x.ok THEN x ELSE UnaryOpApply(tree.op, x.val)
      [] tree.t = "BinaryOp" ->
            LET a == eval_number(tree.a)
                b == eval_number(tree.b)
            IN  IF ~a.ok THEN a ELSE IF ~b.ok THEN b
                ELSE BinaryOpApply(tree.op, a.val, b.val)

\* C14: Power is right-associative.  A chain of operands joined by "^" or
\* "**", in any mix, parses to one expression grouped from the right,
\* whatever the number of operands; 2^3^2 parses to the tree of 2^(3^2) and
\* its value is 512.
C14_PowerRightAssociative ==
    /\ (last.cmd = "parse" /\ last.text \in PowerTexts) =>
          /\ last.ok
          /\ last.stmts = << Expression(RightNested(Operands(last.text), 1)) >>
    /\ (last.cmd = "parse" /\ last.text \in {<<"2", "^", "3", "^", "2">>,
                                             <<"2", "*", "*", "3", "*", "*", "2">>}) =>
          /\ last.stmts = parse(<<"2", "^", "(", "3", "^", "2", ")">>).val
          /\ eval_number(last.stmts[1].expr) = NumOk(Fin(512))

C14_Witness ==
    /\ last.cmd = "parse"
    /\ last.text = <<"2", "^", "3", "*", "*", "x">>
    /\ last.ok
    /\ last.stmts = << Expression(BinaryOp("Power", Lit(2),
                                           BinaryOp("Power", Lit(3), Variable("x")))) >>

\* The operator an operator character stands for.
OperatorOf(sym) ==
    CASE sym = "+" -> "Add"
      [] sym = "-" -> "Subtract"
      [] sym = "*" -> "Multiply"
      [] sym = "/" -> "Divide"
      [] sym = "%" -> "Modulo"

\* a o1 b o2 c grouped to the left, and grouped to the right.
GroupLeft(w, o1, o2) ==
    BinaryOp(OperatorOf(o2), BinaryOp(OperatorOf(o1), AtomOf(w[1]), AtomOf(w[2])), AtomOf(w[3]))

GroupRight(w, o1, o2) ==
    BinaryOp(OperatorOf(o1), AtomOf(w[1]), BinaryOp(OperatorOf(o2), AtomOf(w[2]), AtomOf(w[3])))

Additive == {"+", "-"}

\* C15: precedence and left-associativity of the explicit operators.  In
\* a o1 b o2 c the second operator groups first exactly when it is
\* multiplicative and the first is additive; otherwise the text groups to the
\* left; parentheses around either pair decide the grouping; a chain of four
\* operands of one tier folds to the left.  1+2*3 has the value 7, (1+2)*3
\* the value 9, and x - y - g is Subtract(Subtract(x, y), g).
C15_PrecedenceAndLeftAssociativity ==
    /\ (last.cmd = "parse" /\ last.text \in InfixTexts) => last.ok
    /\ \A w \in InfixOperands : \A o1 \in InfixSymbols : \A o2 \in InfixSymbols : \A gap \in Gaps :
          /\ (last.cmd = "parse" /\ last.text = Infix(w, o1, o2, gap)) =>
                /\ last.ok
                /\ last.stmts =
                      << Expression(IF o1 \in Additive /\ o2 \notin Additive
                                    THEN GroupRight(w, o1, o2) ELSE GroupLeft(w, o1, o2)) >>
          /\ (last.cmd = "parse" /\ last.text = InfixLeft(w, o1, o2, gap)) =>
                last.ok /\ last.stmts = << Expression(GroupLeft(w, o1, o2)) >>
          /\ (last.cmd = "parse" /\ last.text = InfixRight(w, o1, o2, gap)) =>
                last.ok /\ last.stmts = << Expression(GroupRight(w, o1, o2)) >>
    /\ \A syms \in ChainSymbols :
          (last.cmd = "parse" /\ last.text = Chain(ChainOperands, syms)) =>
              /\ last.ok
              /\ last.stmts =
                    << Expression(BinaryOp(OperatorOf(syms[3]),
                                           GroupLeft(ChainOperands, syms[1], syms[2]),
                                           AtomOf(ChainOperands[4]))) >>
    /\ (last.cmd = "parse" /\ last.text = <<"1", "+", "2", "*", "3">>) =>
          eval_number(last.stmts[1].expr) = NumOk(Fin(7))
    /\ (last.cmd = "parse" /\ last.text = <<"(", "1", "+", "2", ")", "*", "3">>) =>
          eval_number(last.stmts[1].expr) = NumOk(Fin(9))
    /\ (last.cmd = "parse" /\ last.text = <<"x", " ", "-", " ", "y", " ", "-", " ", "g">>) =>
          last.stmts = << Expression(BinaryOp("Subtract",
                                              BinaryOp("Subtract", Variable("x"), Variable("y")),
                                              Variable("g"))) >>

C15_Witness ==
    /\ last.cmd = "parse"
    /\ last.text = <<"1", "+", "2", "*", "3">>
    /\ last.ok
    /\ last.stmts = << Expression(BinaryOp("Add", Lit(1), BinaryOp("Multiply", Lit(2), Lit(3)))) >>

Product(l, r) == BinaryOp("Multiply", l.tree, r.tree)

\* C16: implicit multiplication.  Two operands side by side, with or without
\* a space, parse to Multiply (an identifier followed by "(" is a call, hence
\* one operand); three fold to the left; a leading "-" negates the whole
\* product and a leading "+" leaves it; an explicit * / % takes the product
\* as one operand on either side; a power or a factorial is an operand of
\* the product.  2 pi parses to the tree of 2*pi, -2 pi to Negate(2*pi),
\* 6 / 2 3 to Divide(6, Multiply(2, 3)).
C16_ImplicitMultiplication ==
    /\ \A l \in Factors : \A r \in Factors :
          ~StartsCall(l, r) =>
              /\ \A gap \in Gaps :
                    (last.cmd = "parse" /\ last.text = Adjacent(l, r, gap)
                        /\ (gap = << >> => Joinable(l, r))) =>
                        last.ok /\ last.stmts = << Expression(Product(l, r)) >>
              /\ \A t \in Factors :
                    (last.cmd = "parse" /\ ~StartsCall(r, t)
                        /\ last.text = Adjacent(l, r, <<" ">>) \o <<" ">> \o t.text) =>
                        /\ last.ok
                        /\ last.stmts = << Expression(BinaryOp("Multiply", Product(l, r), t.tree)) >>
              /\ (last.cmd = "parse" /\ last.text = <<"-">> \o Adjacent(l, r, <<" ">>)) =>
                    last.ok /\ last.stmts = << Expression(UnaryOp("Negate", Product(l, r))) >>
              /\ (last.cmd = "parse" /\ last.text = <<"+">> \o Adjacent(l, r, <<" ">>)) =>
                    last.ok /\ last.stmts = << Expression(Product(l, r)) >>
              /\ \A sym \in {"*", "/", "%"} :
                    /\ (last.cmd = "parse"
                          /\ last.text = <<"6", " ", sym, " ">> \o Adjacent(l, r, <<" ">>)) =>
                          /\ last.ok
                          /\ last.stmts = << Expression(BinaryOp(OperatorOf(sym), Lit(6), Product(l, r))) >>
                    /\ (last.cmd = "parse"
                          /\ last.text = Adjacent(l, r, <<" ">>) \o <<" ", sym, " ", "6">>) =>
                          /\ last.ok
                          /\ last.stmts = << Expression(BinaryOp(OperatorOf(sym), Product(l, r), Lit(6))) >>
    /\ (last.cmd = "parse" /\ last.text = <<"2", " ", "pi">>) =>
          last.stmts = parse(<<"2", "*", "pi">>).val
    /\ (last.cmd = "parse" /\ last.text = <<"-", "2", " ", "pi">>) =>
          last.stmts = << Expression(UnaryOp("Negate", BinaryOp("Multiply", Lit(2), Variable("pi")))) >>
    /\ (last.cmd = "parse" /\ last.text = <<"6", " ", "/", " ", "2", " ", "3">>) =>
          last.stmts = << Expression(BinaryOp("Divide", Lit(6), BinaryOp("Multiply", Lit(2), Lit(3)))) >>

C16_Witness ==
    /\ last.cmd = "parse"
    /\ last.text = <<"6", " ", "/", " ", "2", " ", "3", "!">>
    /\ last.ok
    /\ last.stmts = << Expression(BinaryOp("Divide", Lit(6),
                          BinaryOp("Multiply", Lit(2), UnaryOp("Factorial", Lit(3))))) >>

\* The pieces of a text between its separators, comments left out: a comment
\* runs from "#" to the end of its line, and ";" and the newline separate.
RECURSIVE Split(_, _, _, _, _)
Split(text, i, segments, current, in_comment) ==
    IF i > Len(text) THEN Append(segments, current)
    ELSE IF text[i] = "\n" \/ (text[i] = ";" /\ ~in_comment)
    THEN Split(text, i + 1, Append(segments, current), << >>, FALSE)
    ELSE IF in_comment \/ text[i] = "#" THEN Split(text, i + 1, segments, current, TRUE)
    ELSE Split(text, i + 1, segments, Append(current, text[i]), FALSE)

NonBlank(segment) == \E i \in 1..Len(segment) : segment[i] # " "

NonBlankStatements(text) == SelectSeq(Split(text, 1, << >>, << >>, FALSE), NonBlank)

\* C17: parse consumes the whole input or fails.  When parse succeeds it has
\* read the text to its end, and its statements are, in order, those of the
\* non-blank pieces between the separators ";" and newline, comments left
\* out: as many statements as such pieces.  Every script of the universe
\* parses, and a script followed by lexemes that continue no statement fails
\* as a whole, although a prefix of it parses.
C17_ParseConsumesAllOrFails ==
    /\ (last.cmd \in {"parse", "reparse"} /\ last.ok) => eof(last.text, last.pos)
    /\ (last.cmd = "parse" /\ last.ok) =>
          LET pieces == NonBlankStatements(last.text)
          IN  /\ Len(last.stmts) = Len(pieces)
              /\ \A i \in 1..Len(pieces) :
                    parse(pieces[i]).ok /\ parse(pieces[i]).val = << last.stmts[i] >>
    /\ (last.cmd = "parse" /\ last.text \in ScriptTexts) => last.ok
    /\ (last.cmd = "parse" /\ last.text \in JunkTexts) => ~last.ok

C17_Witness ==
    /\ last.cmd = "parse"
    /\ last.text = <<"1", ";", " ", "#", "note", ";", "\n", " ",
                     "x", " ", "=", " ", "2", " ", "#", "end">>
    /\ last.ok
    /\ last.stmts = << Expression(Lit(1)), VariableAssignment("x", Lit(2)) >>

\* C18: a parse error aborts the whole line.  When a line fails to parse,
\* exec_stmt is called on none of its statements, not even on those before
\* the place of the error, and the Environment is as it was; the session
\* goes on: the line that follows is run against that Environment.
C18_ParseErrorAbortsLine ==
    [][/\ (last'.cmd = "line" /\ ~parse(last'.text).ok) =>
              (/\ env' = env
               /\ ~last'.parsed /\ last'.executed = 0
               /\ ~last'.ok /\ last'.err = "ParseError")
       /\ (last.cmd = "line" /\ ~last.parsed) =>
              (/\ last'.after_error
               /\ env' = run_script(last'.text, env).env)]_vars

C18_Witness ==
    /\ last.cmd = "line"
    /\ last.text = <<"x", "=", "3", ";", " ", "y", "=", "6", " ", ")">>
    /\ ~last.parsed /\ last.executed = 0
    /\ parse_stmt_list(last.text, 1).ok
    /\ Len(parse_stmt_list(last.text, 1).val) = 2
    /\ env["x"] = FieldVariable(Fin(1))
    /\ env["y"] = Unbound

\* The names the default Environment binds: the constants and the built-in
\* functions.
Prepopulated == {name \in Names : DefaultEnvironment[name] # Unbound}

\* C19: after the reset command, whatever came before it, the Environment
\* is the default one: no user variable or user-defined function is bound,
\* ans and _ are unbound, and every constant and built-in function is bound
\* to its original item.
C19_ResetRestoresDefault ==
    last.cmd = "reset" =>
        /\ env = DefaultEnvironment
        /\ \A name \in Names : env[name].kind \notin {"Variable", "UserDefined"}
        /\ env["ans"] = Unbound /\ env["_"] = Unbound
        /\ \A name \in Prepopulated : Immutable(env[name]) /\ env[name] = DefaultEnvironment[name]

C19_Witness ==
    /\ last.cmd = "reset"
    /\ last.prior = "Constant"
    /\ env["ans"] = Unbound
    /\ env["x"] = Unbound /\ env["f"] = Unbound

C21_NumbersAtRestAreFinite ==
    \A name \in Names : IsField(env[name]) => is_finite(env[name].value)

\* The two names a value-producing statement rebinds.
AnsNames == {"ans", "_"}

\* Statements by which the user tries to take over ans or _.
AnsStmts ==
    UNION {{VariableAssignment(name, Lit(1)),
            VariableAssignment(name, OneOverZero),
            FunctionDefinition(name, <<"x">>, Variable("x")),
            FunctionDefinition(name, <<"x", "x">>, Variable("x"))} : name \in AnsNames}

\* A statement has produced a value since the session started or was reset:
\* by C22_Step that is the case exactly when ans is bound as a Constant.
HasAns == env["ans"].kind = "Constant"

\* A statement that has just yielded Some(value).
Yielded(s) == s.cmd = "stmt" /\ s.ok /\ s.some

\* With ans bound, what each statement and each delete would do to ans and _.
C22_State ==
    HasAns =>
        /\ env["_"] = env["ans"]
        /\ \A stmt \in Stmts \cup AnsStmts :
                LET out == exec_stmt(stmt, env)
                IN  /\ (out.res.ok /\ out.res.some) =>
                            \A name \in AnsNames : out.env[name] = FieldConstant(out.res.val)
                    /\ ~(out.res.ok /\ out.res.some) =>
                            \A name \in AnsNames : out.env[name] = env[name]
                    /\ Target(stmt) \in AnsNames =>
                            /\ ~out.res.ok
                            /\ (stmt.s = "VariableAssignment" /\ Eval(stmt.expr, env).ok) =>
                                    out.res.err = "TypeError"
                            /\ (stmt.s = "FunctionDefinition"
                                    /\ find_duplicate(stmt.arg_names) = {}) =>
                                    out.res.err = "TypeError"
        /\ \A name \in AnsNames : delete(env, name) = EnvErr("TypeError", env)

\* One step of the session, as it treats ans and _.
C22_Step ==
    /\ Yielded(last') => (env'["ans"].kind = "Constant" /\ env'["_"] = env'["ans"])
    /\ last'.cmd = "reset" => env'["ans"] = Unbound
    /\ (HasAns /\ last'.cmd # "reset") =>
            /\ env'["ans"].kind = "Constant"
            /\ env'["_"] = env'["ans"]
            /\ ~Yielded(last') => env'["ans"] = env["ans"]
            /\ last'.target \in AnsNames => (~last'.ok /\ last'.err = "TypeError")

C23_EveryStatementTerminates ==
    last.cmd = "stmt" => (last.ok \/ last.err \in EvalErrors)

\* The Environment after the first k statements, each executed in turn on
\* the Environment the one before it left.
RECURSIVE EnvAfter(_, _, _)
EnvAfter(stmts, k, e) ==
    IF k = 0 THEN e ELSE exec_stmt(stmts[k], EnvAfter(stmts, k - 1, e)).env

\* The outcome of statement k executed after the k - 1 before it.
ResultOf(stmts, k, e) == exec_stmt(stmts[k], EnvAfter(stmts, k - 1, e)).res

\* The first statement that fails when they are executed in source order; 0
\* when none does.
FirstFailure(stmts, e) ==
    LET failing == {k \in 1..Len(stmts) : ~ResultOf(stmts, k, e).ok}
    IN  IF failing = {} THEN 0 ELSE CHOOSE k \in failing : \A j \in failing : k <= j

\* The last statement that gives a value; 0 when none does.
LastValue(stmts, e) ==
    LET giving == {k \in 1..Len(stmts) : ResultOf(stmts, k, e).some}
    IN  IF giving = {} THEN 0 ELSE CHOOSE k \in giving : \A j \in giving : j <= k

\* A line that parses, as the session has just run it.
C24_Line(stmts) ==
    LET k == FirstFailure(stmts, env)
        v == LastValue(stmts, env)
    IN  IF k = 0
        THEN /\ last'.ok /\ last'.executed = Len(stmts)
             /\ env' = EnvAfter(stmts, Len(stmts), env)
             /\ last'.some = (v # 0)
             /\ v # 0 => last'.value = ResultOf(stmts, v, env).val
        ELSE /\ ~last'.ok /\ last'.err = ResultOf(stmts, k, env).err
             /\ last'.err \in EvalErrors
             /\ last'.executed = k
             /\ env' = EnvAfter(stmts, k - 1, env)
             /\ env' = EnvAfter(stmts, k, env)

\* C24: the statements of a line or script are executed in source order,
\* each to completion before the next.  When statement k fails with an
\* EvalError the effects of the statements before it are kept, statement k
\* has no effect, the statements after it are not executed, and the session
\* goes on with the next line, run against the Environment so left; when
\* none fails, the value reported is that of the last statement that
\* produced one.
C24_StatementsInSourceOrder ==
    [][/\ (last'.cmd = "line" /\ parse(last'.text).ok) =>
              (last'.parsed /\ C24_Line(parse(last'.text).val))
       /\ (last.cmd = "line" /\ last.parsed /\ ~last.ok) =>
              (/\ last'.cmd = "line"
               /\ env' = run_script(last'.text, env).env)]_vars

\* The second of three statements has just failed: x holds what the first
\* assigned, ans its value, and y was not assigned.
C24_Witness ==
    /\ last.cmd = "line"
    /\ last.text = <<"x", "=", "6", ";", "pi", "=", "2", ";", "y", "=", "6">>
    /\ last.parsed /\ ~last.ok /\ last.err = "TypeError" /\ last.executed = 2
    /\ env["x"] = FieldVariable(Fin(6))
    /\ env["ans"] = FieldConstant(Fin(6))
    /\ env["y"] # FieldVariable(Fin(6))
    /\ env["pi"] = DefaultEnvironment["pi"]

====
